---------------------------- MODULE Spec2Model ----------------------------
(***************************************************************************)
(* Host-side search orchestrator of the TON vanity address generator       *)
(* (src/src/generator.py): the pattern-to-mask compiler, the hit           *)
(* validator and sink, the device workers and the driver.                  *)
(*                                                                         *)
(* Characters are their code points (ord), strings are sequences of code   *)
(* points, byte arrays and bit arrays are functions on 0..n-1 as in the    *)
(* source.                                                                 *)
(***************************************************************************)
EXTENDS Integers, Sequences, FiniteSets, TLC

(***************************************************************************)
(* Constants of the program                                                *)
(***************************************************************************)
RES_SLOTS == 1024
TOTAL_BYTES == 36
TOTAL_BITS == TOTAL_BYTES * 8
HASH_BIT_START == 16
HASH_BIT_END == HASH_BIT_START + 256

(***************************************************************************)
(* Integer helpers for Python's bit operators                              *)
(***************************************************************************)
Pow2(n) == 2 ^ n

Shr(x, n) == x \div Pow2(n)

BitOf(x, k) == (x \div Pow2(k)) % 2

Min(a, b) == IF a < b THEN a ELSE b

Max(a, b) == IF a > b THEN a ELSE b

RECURSIVE SumOver(_, _)
SumOver(S, f) ==
    IF S = {} THEN 0
    ELSE LET x == CHOOSE y \in S : TRUE
         IN f[x] + SumOver(S \ {x}, f)

\* a & b, a | b, a ^ b on 4-bit values, tabulated
Nibbles == 0..15

And4 == [a \in Nibbles |-> [b \in Nibbles |->
            SumOver(0..3, [k \in 0..3 |-> BitOf(a, k) * BitOf(b, k) * Pow2(k)])]]

Or4 == [a \in Nibbles |-> [b \in Nibbles |->
           SumOver(0..3, [k \in 0..3 |-> Max(BitOf(a, k), BitOf(b, k)) * Pow2(k)])]]

Xor4 == [a \in Nibbles |-> [b \in Nibbles |->
            SumOver(0..3, [k \in 0..3 |-> ((BitOf(a, k) + BitOf(b, k)) % 2) * Pow2(k)])]]

\* A bitwise operator on non-negative integers, nibble by nibble
RECURSIVE Bitwise(_, _, _)
Bitwise(op, a, b) ==
    IF a = 0 /\ b = 0 THEN 0
    ELSE op[a % 16][b % 16] + 16 * Bitwise(op, a \div 16, b \div 16)

\* a & b, a | b, a ^ b
BitAnd(a, b) == Bitwise(And4, a, b)

BitOr(a, b) == Bitwise(Or4, a, b)

BitXor(a, b) == Bitwise(Xor4, a, b)

(***************************************************************************)
(* Basic helpers                                                           *)
(***************************************************************************)
\* bits_from_byte: 8 high-to-low bits of a byte
bits_from_byte(b) == [i \in 0..7 |-> BitOf(b, 7 - i)]

IsUpper(o) == 65 <= o /\ o <= 90

IsLower(o) == 97 <= o /\ o <= 122

IsDigit(o) == 48 <= o /\ o <= 57

\* str.isalpha / str.isalnum on one ASCII character
isalpha(o) == IsUpper(o) \/ IsLower(o)

isalnum(o) == isalpha(o) \/ IsDigit(o)

\* str.lower / str.upper on one ASCII character
lower(o) == IF IsUpper(o) THEN o + 32 ELSE o

upper(o) == IF IsLower(o) THEN o - 32 ELSE o

LowerStr(s) == [i \in 1..Len(s) |-> lower(s[i])]

\* base64url_value: -1 stands for the ValueError of an invalid character
base64url_value(o) ==
    IF IsUpper(o) THEN o - 65
    ELSE IF IsLower(o) THEN o - 97 + 26
    ELSE IF IsDigit(o) THEN o - 48 + 52
    ELSE IF o = 45 THEN 62
    ELSE IF o = 95 THEN 63
    ELSE -1

\* base64url_bits: bit j (0 = most significant) of the 6-bit value v
base64url_bits(v, j) == BitOf(v, 5 - j)

\* char_variants: the allowed characters for ch
char_variants(ch, case_sensitive) ==
    IF case_sensitive THEN {ch}
    ELSE IF isalpha(ch) THEN {lower(ch), upper(ch)}
    ELSE {ch}

\* char_bit_variants: the allowed 6-bit values for ch (each stands for its 6 bits)
char_bit_variants(ch, case_sensitive) ==
    {base64url_value(v) : v \in char_variants(ch, case_sensitive)}

is_base64url(s) == \A i \in 1..Len(s) : isalnum(s[i]) \/ s[i] = 45 \/ s[i] = 95

\* crc16_table: the 256-entry CRC16-CCITT table, built bit by bit
RECURSIVE CrcShift(_, _)
CrcShift(crc, n) ==
    IF n = 0 THEN crc
    ELSE CrcShift(IF BitOf(crc, 15) = 1
                  THEN BitXor((crc * 2) % 65536, 4129)
                  ELSE (crc * 2) % 65536, n - 1)

crc16_table == [i \in 0..255 |-> CrcShift(i * 256, 8)]

\* One step of crc16's loop: ((crc << 8) ^ table[((crc >> 8) ^ b) & 0xFF]) & 0xFFFF
Crc16Step(crc, b) ==
    BitXor((crc * 256) % 65536, crc16_table[BitXor(Shr(crc, 8), b) % 256])

\* crc16 over data[0..n-1] with the table (c is bound to each step's value)
RECURSIVE Crc16From(_, _, _, _)
Crc16From(data, n, i, crc) ==
    IF i = n THEN crc
    ELSE CHOOSE r \in {Crc16From(data, n, i + 1, c) : c \in {Crc16Step(crc, data[i])}} : TRUE

crc16(data, n) == Crc16From(data, n, 0, 0)

\* base64.urlsafe_b64encode of 36 bytes: the 48 characters
B64Alphabet(v) ==
    IF v < 26 THEN 65 + v
    ELSE IF v < 52 THEN 97 + (v - 26)
    ELSE IF v < 62 THEN 48 + (v - 52)
    ELSE IF v = 62 THEN 45
    ELSE 95

urlsafe_b64encode(bytes) ==
    [d \in 1..48 |->
        LET g == (d - 1) \div 4
            k == (d - 1) % 4
            n == bytes[3 * g] * 65536 + bytes[3 * g + 1] * 256 + bytes[3 * g + 2]
        IN B64Alphabet((n \div Pow2(6 * (3 - k))) % 64)]

\* Python slice s[a:b] of a sequence (0-based, clipped, a >= 0)
Slice(s, a, b) == SubSeq(s, a + 1, Min(b, Len(s)))

\* Python slice s[-n:] for n > 0
SliceLast(s, n) == SubSeq(s, Max(Len(s) - n, 0) + 1, Len(s))

(***************************************************************************)
(* Pattern compiler                                                        *)
(***************************************************************************)
\* Optional values: None is the empty tuple, a present value x is <<x>>
None == <<>>

\* A variant of the filter that keeps a variant when any overlap bit agrees
ValidVariantsAnyBit(variants, char_bit_base, prefix_bits) ==
    {var \in variants :
        \/ char_bit_base >= 16
        \/ \E b \in 0..5 : /\ char_bit_base + b < 16
                            /\ base64url_bits(var, b) = prefix_bits[char_bit_base + b]}

\* The variants of `variants` that agree with prefix_bits on the overlap with bits 0..15
ValidVariants(variants, char_bit_base, prefix_bits) ==
    {var \in variants :
        \A b \in 0..5 : char_bit_base + b < 16
            => base64url_bits(var, b) = prefix_bits[char_bit_base + b]}

\* One pass of the digit_offset loop body: the filtered variants per character
FilteredAt(char_opts, digit_offset, prefix_bits) ==
    [ci \in 1..Len(char_opts) |->
        ValidVariants(char_opts[ci], 6 * digit_offset + (ci - 1) * 6, prefix_bits)]

\* A variant of the offset test that accepts every offset
OffsetOkAlways(char_opts, digit_offset, prefix_bits) == TRUE

\* The offset is kept if every character has a variant left
OffsetOk(char_opts, digit_offset, prefix_bits) ==
    \A ci \in 1..Len(char_opts) :
        FilteredAt(char_opts, digit_offset, prefix_bits)[ci] # {}

\* The for loop over digit_offset in range(max_digit_offset + 1), then the fallback
RECURSIVE ScanOffsets(_, _, _, _)
ScanOffsets(char_opts, digit_offset, max_digit_offset, prefix_bits) ==
    IF digit_offset > max_digit_offset
    THEN [offset |-> (16 + 5) \div 6, variants |-> char_opts]
    ELSE IF OffsetOk(char_opts, digit_offset, prefix_bits)
    THEN [offset |-> digit_offset,
          variants |-> FilteredAt(char_opts, digit_offset, prefix_bits)]
    ELSE ScanOffsets(char_opts, digit_offset + 1, max_digit_offset, prefix_bits)

choose_start_alignment(start, case_sensitive, prefix_bits) ==
    IF Len(start) = 0 THEN [offset |-> 0, variants |-> <<>>]
    ELSE LET char_opts == [ci \in 1..Len(start) |-> char_bit_variants(start[ci], case_sensitive)]
             len_bits == Len(start) * 6
             max_digit_offset == IF TOTAL_BITS >= len_bits
                                 THEN (TOTAL_BITS - len_bits) \div 6
                                 ELSE -((len_bits - TOTAL_BITS) \div 6)
         IN ScanOffsets(char_opts, 0, max_digit_offset, prefix_bits)

\* list(variant_vals) of a two-element set of small ints: CPython iterates the
\* 8-slot table in slot order, and an int's slot is its value mod 8
SetOrder2(vals) ==
    LET a == CHOOSE x \in vals : \A y \in vals : x <= y
        b == CHOOSE x \in vals : \A y \in vals : x >= y
    IN IF a % 8 < b % 8 THEN <<a, b>> ELSE <<b, a>>

\* A variant of the ambiguity entries whose bit position is the digit's last bit
CiEntriesAtLastBit(variants, bit_base, case_sensitive) ==
    LET all == [c \in 1..Len(variants) |->
                   [bitpos |-> bit_base + 6 * (c - 1) + 5,
                    two |-> (~case_sensitive /\ Cardinality(variants[c]) = 2),
                    vals |-> IF Cardinality(variants[c]) = 2
                             THEN SetOrder2(variants[c]) ELSE <<0, 0>>]]
        IsTwo(e) == e.two
        kept == SelectSeq(all, IsTwo)
    IN [k \in 1..Len(kept) |->
           [bitpos |-> kept[k].bitpos, alt0 |-> kept[k].vals[1], alt1 |-> kept[k].vals[2]]]

\* The ambiguity entries of one pattern: one per character with two variant values
CiEntries(variants, bit_base, case_sensitive) ==
    LET all == [c \in 1..Len(variants) |->
                   [bitpos |-> bit_base + 6 * (c - 1),
                    two |-> (~case_sensitive /\ Cardinality(variants[c]) = 2),
                    vals |-> IF Cardinality(variants[c]) = 2
                             THEN SetOrder2(variants[c]) ELSE <<0, 0>>]]
        IsTwo(e) == e.two
        kept == SelectSeq(all, IsTwo)
    IN [k \in 1..Len(kept) |->
           [bitpos |-> kept[k].bitpos, alt0 |-> kept[k].vals[1], alt1 |-> kept[k].vals[2]]]

\* allowed_bits of pattern bit i
AllowedBits(variants, i) ==
    {base64url_bits(v, i % 6) : v \in variants[(i \div 6) + 1]}

\* A variant of the singleton test that takes every pattern bit from bit 16 on
SingleBitsAnyCardinality(variants, bit_base) ==
    {i \in 0..(Len(variants) * 6 - 1) : bit_base + i >= 16}

\* A variant of the singleton test that also takes the bits below bit 16
SingleBitsFromBitZero(variants, bit_base) ==
    {i \in 0..(Len(variants) * 6 - 1) :
        bit_base + i >= 0 /\ Cardinality(AllowedBits(variants, i)) = 1}

\* The pattern bits i whose allowed_bits is a singleton and whose bit_index >= 16
SingleBits(variants, bit_base) ==
    {i \in 0..(Len(variants) * 6 - 1) :
        bit_base + i >= 16 /\ Cardinality(AllowedBits(variants, i)) = 1}

TheBit(variants, i) == CHOOSE b \in AllowedBits(variants, i) : TRUE

\* A variant of the bit setter that counts the bits of a byte from the low end
OrBitsLowFirst(S, byte) ==
    LET T == {bi \in S : bi >= 0 /\ bi \div 8 = byte}
    IN SumOver(T, [bi \in T |-> Pow2(bi % 8)])

\* x |= 1 << (7 - bit_index % 8) for every bit_index of S that lies in byte
OrBits(S, byte) ==
    LET T == {bi \in S : bi >= 0 /\ bi \div 8 = byte}
    IN SumOver(T, [bi \in T |-> Pow2(7 - (bi % 8))])

\* n high-to-low bits of x, as a sequence
int_to_bits(x, n) == [i \in 1..n |-> BitOf(x, n - i)]

\* The byte that the bits i..i+7 of a bit sequence spell (fewer at the end)
BitsToByte(bits, i) ==
    LET last == Min(i + 7, Len(bits))
    IN SumOver(i..last, [k \in i..last |-> bits[k] * Pow2(last - k)])

\* TON padding: a 1 and then zeros up to the byte boundary; the bytes as a sequence
bits_to_padded_bytes(bits) ==
    LET byte_len == (Len(bits) + 7) \div 8
        padding == byte_len * 8 - Len(bits)
        padded == IF padding > 0
                  THEN bits \o <<1>> \o [k \in 1..(padding - 1) |-> 0]
                  ELSE bits
    IN [j \in 1..byte_len |-> BitsToByte(padded, 8 * (j - 1) + 1)]

\* Descriptors, padded bits and reference depth of the StateInit cell, as a
\* sequence of bytes (fixed_prefix_length in 0..31 or None)
build_stateinit_prefix(fixed_prefix_length, special) ==
    LET bits == (IF fixed_prefix_length # None
                 THEN <<1>> \o int_to_bits(fixed_prefix_length[1], 5)
                 ELSE <<0>>)
                \o (IF special # None
                    THEN <<1, IF special[1] # 0 THEN 1 ELSE 0, IF special[2] # 0 THEN 1 ELSE 0>>
                    ELSE <<0>>)
                \o <<1, 0, 0>>
        bits_desc == ((Len(bits) + 7) \div 8) + (Len(bits) \div 8)
    IN <<1, bits_desc>> \o bits_to_padded_bytes(bits) \o <<0, 0>>

\* The loop over fixed_prefix_lengths and special_variants: one prefix per pair
StateinitVariantList(fixed_prefix_lengths, special_variants) ==
    [k \in 1..(Len(fixed_prefix_lengths) * Len(special_variants)) |->
        build_stateinit_prefix(
            fixed_prefix_lengths[((k - 1) \div Len(special_variants)) + 1],
            special_variants[((k - 1) % Len(special_variants)) + 1])]

\* A variant of the padding that leaves every prefix at its own length
PadPrefixesUnpadded(variants, max_len) == variants

\* stateinit_prefix_padded: every prefix followed by zeros up to max_len
PadPrefixes(variants, max_len) ==
    [k \in 1..Len(variants) |->
        variants[k] \o [j \in 1..(max_len - Len(variants[k])) |-> 0]]

\* A variant of the free-byte test that sends no start bit to free_hash_mask
FreeByteBitsNone(single, bit_offset) == {}

\* The single-valued start bits that fall in the first hash byte (bits 16..23): they
\* go to free_hash_mask and free_hash_val, not to prefix_mask
FreeByteBits(single, bit_offset) ==
    {i \in single : HASH_BIT_START <= bit_offset + i
                    /\ bit_offset + i < HASH_BIT_START + 8}

\* A variant of the range test that lets start bits reach the checksum bytes
StartMaskBitsToEnd(single, bit_offset) ==
    {i \in single : bit_offset + i < TOTAL_BITS}

\* Line 626: the other single-valued start bits go to prefix_mask if they lie
\* before the checksum (bit 272)
StartMaskBits(single, bit_offset) ==
    {i \in single : bit_offset + i < TOTAL_BITS /\ bit_offset + i < HASH_BIT_END}

\* max(stateinit_prefix_lens)
MaxOf(lens) == CHOOSE m \in {lens[k] : k \in 1..Len(lens)} : \A k \in 1..Len(lens) : lens[k] <= m

build_kernel_config(cli) ==
    LET flags_byte == (IF cli.non_bounceable THEN 81 ELSE 17)
                      + (IF cli.testnet THEN 128 ELSE 0)
        wc_byte == IF cli.masterchain THEN 255 ELSE 0
        prefix_bits == [i \in 0..15 |->
                           IF i < 8 THEN bits_from_byte(flags_byte)[i]
                           ELSE bits_from_byte(wc_byte)[i - 8]]
        sa == choose_start_alignment(cli.start, cli.case_sensitive, prefix_bits)
        start_digit_base == sa.offset
        sv == sa.variants
        bit_offset == start_digit_base * 6
        ssingle == SingleBits(sv, bit_offset)
        sfree == FreeByteBits(ssingle, bit_offset)
        smask == StartMaskBits(ssingle \ sfree, bit_offset)
        ev == [c \in 1..Len(cli.end) |-> char_bit_variants(cli.end[c], cli.case_sensitive)]
        bit_base == TOTAL_BITS - Len(cli.end) * 6
        esingle == SingleBits(ev, bit_base)
        maskbits == {bit_offset + i : i \in smask} \cup {bit_base + i : i \in esingle}
        valbits == {bit_offset + i : i \in {j \in smask : TheBit(sv, j) = 1}}
                   \cup {bit_base + i : i \in {j \in esingle : TheBit(ev, j) = 1}}
        prefix_mask == [b \in 0..(TOTAL_BYTES - 1) |-> OrBits(maskbits, b)]
        prefix_val == [b \in 0..(TOTAL_BYTES - 1) |-> OrBits(valbits, b)]
        prefix_pos == {i \in 0..(TOTAL_BYTES - 1) : prefix_mask[i] # 0}
        fixed_prefix_lengths == IF Len(cli.start) > 0 THEN << <<8>> >>
                                ELSE <<None, <<0>>, <<1>>, <<2>>, <<3>>, <<4>>, <<5>>, <<6>>, <<7>>, <<8>>>>
        special_variants == <<None, <<0, 0>>, <<0, 1>>, <<1, 0>>, <<1, 1>>>>
        stateinit_variants == StateinitVariantList(fixed_prefix_lengths, special_variants)
        stateinit_prefix_lens == [k \in 1..Len(stateinit_variants) |-> Len(stateinit_variants[k])]
        stateinit_prefix_max_len == MaxOf(stateinit_prefix_lens)
    IN [flags_hi |-> flags_byte,
        flags_lo |-> wc_byte,
        free_hash_mask |-> OrBits({bit_offset + i : i \in sfree}, 2),
        free_hash_val |-> OrBits({bit_offset + i : i \in {j \in sfree : TheBit(sv, j) = 1}}, 2),
        prefix_mask |-> prefix_mask,
        prefix_val |-> prefix_val,
        has_crc |-> IF prefix_mask[34] # 0 \/ prefix_mask[35] # 0 THEN 1 ELSE 0,
        prefix_pos |-> prefix_pos,
        prefix_pos_nocrc |-> {i \in prefix_pos : i < 34},
        stateinit_variants |-> stateinit_variants,
        stateinit_prefix_lens |-> stateinit_prefix_lens,
        stateinit_prefix_max_len |-> stateinit_prefix_max_len,
        stateinit_prefix_padded |-> PadPrefixes(stateinit_variants, stateinit_prefix_max_len),
        fixed_prefix_lengths |-> fixed_prefix_lengths,
        special_variants |-> special_variants,
        ci |-> (IF Len(cli.start) > 0
                THEN CiEntries(sv, bit_offset, cli.case_sensitive) ELSE <<>>)
               \o CiEntries(ev, bit_base, cli.case_sensitive),
        start_digit_base |-> start_digit_base]

(***************************************************************************)
(* Kernel rendering: render_kernel                                         *)
(*                                                                         *)
(* The template kernel.cl is a sequence of chunks: a placeholder <<NAME>>  *)
(* (kind "tag") or other text (kind "text"). A rendered value is a text    *)
(* chunk that keeps the numbers whose literals it joins. The values that   *)
(* come from SHA-256 (code prefix, midstate, message words) are not        *)
(* computed.                                                               *)
(***************************************************************************)
Tag(name) == [kind |-> "tag", name |-> name, items |-> <<>>]

Text(name) == [kind |-> "text", name |-> name, items |-> <<>>]

\* The tags of the repl calls, in the order of the calls
KernelTags ==
    <<"CODE_PREFIX_BYTES", "CODE_STATE_BASE", "CRC16_TABLE", "PREFIX_W_MATRIX",
      "PREFIX_MASK", "PREFIX_VAL", "HAS_CRC_CONSTRAINT", "N_ACTIVE", "N_ACTIVE_NOCRC",
      "PREFIX_POS", "PREFIX_POS_NOCRC", "N_CASE_INSENSITIVE", "CASE_BITPOS",
      "CASE_ALT0", "CASE_ALT1", "N_STATEINIT_VARIANTS", "STATEINIT_PREFIX_MAX_LEN",
      "STATEINIT_PREFIX_MATRIX", "STATEINIT_PREFIX_LENS", "FLAGS_HI", "FLAGS_LO",
      "FREE_HASH_MASK", "FREE_HASH_VAL">>

\* A list of ints kept as a function on 0..n-1, as a sequence
ListOf(f, n) == [i \in 1..n |-> f[i - 1]]

\* The elements of a set of ints in increasing order
RECURSIVE Ascending(_)
Ascending(S) ==
    IF S = {} THEN <<>>
    ELSE LET m == CHOOSE x \in S : \A y \in S : x <= y
         IN <<m>> \o Ascending(S \ {m})

\* The numbers whose literals replace a tag
TagItems(kernel_cfg, tag) ==
    CASE tag = "CRC16_TABLE" -> ListOf(crc16_table, 256)
      [] tag = "PREFIX_MASK" -> ListOf(kernel_cfg.prefix_mask, TOTAL_BYTES)
      [] tag = "PREFIX_VAL" -> ListOf(kernel_cfg.prefix_val, TOTAL_BYTES)
      [] tag = "HAS_CRC_CONSTRAINT" -> <<kernel_cfg.has_crc>>
      [] tag = "N_ACTIVE" -> <<Cardinality(kernel_cfg.prefix_pos)>>
      [] tag = "N_ACTIVE_NOCRC" -> <<Cardinality(kernel_cfg.prefix_pos_nocrc)>>
      [] tag = "PREFIX_POS" -> Ascending(kernel_cfg.prefix_pos)
      [] tag = "PREFIX_POS_NOCRC" -> Ascending(kernel_cfg.prefix_pos_nocrc)
      [] tag = "N_CASE_INSENSITIVE" -> <<Len(kernel_cfg.ci)>>
      [] tag = "CASE_BITPOS" -> [k \in 1..Len(kernel_cfg.ci) |-> kernel_cfg.ci[k].bitpos]
      [] tag = "CASE_ALT0" -> [k \in 1..Len(kernel_cfg.ci) |-> kernel_cfg.ci[k].alt0]
      [] tag = "CASE_ALT1" -> [k \in 1..Len(kernel_cfg.ci) |-> kernel_cfg.ci[k].alt1]
      [] tag = "N_STATEINIT_VARIANTS" -> <<Len(kernel_cfg.stateinit_variants)>>
      [] tag = "STATEINIT_PREFIX_MAX_LEN" -> <<kernel_cfg.stateinit_prefix_max_len>>
      [] tag = "STATEINIT_PREFIX_MATRIX" -> kernel_cfg.stateinit_prefix_padded
      [] tag = "STATEINIT_PREFIX_LENS" -> kernel_cfg.stateinit_prefix_lens
      [] tag = "FLAGS_HI" -> <<kernel_cfg.flags_hi>>
      [] tag = "FLAGS_LO" -> <<kernel_cfg.flags_lo>>
      [] tag = "FREE_HASH_MASK" -> <<kernel_cfg.free_hash_mask>>
      [] tag = "FREE_HASH_VAL" -> <<kernel_cfg.free_hash_val>>
      [] OTHER -> <<>>

\* repl: src.replace(tag, value), every occurrence
Repl(src, tag, items) ==
    [i \in 1..Len(src) |->
        IF src[i].kind = "tag" /\ src[i].name = tag
        THEN [kind |-> "text", name |-> tag, items |-> items]
        ELSE src[i]]

\* The repl calls from the k-th on
RECURSIVE ReplFrom(_, _, _)
ReplFrom(src, kernel_cfg, k) ==
    IF k > Len(KernelTags) THEN src
    ELSE ReplFrom(Repl(src, KernelTags[k], TagItems(kernel_cfg, KernelTags[k])),
                  kernel_cfg, k + 1)

\* render_kernel returns src after the last repl call
render_kernel(kernel_cfg, src) == ReplFrom(src, kernel_cfg, 1)

(***************************************************************************)
(* Validator: the pure part of process_hit (lines 860-951)                 *)
(*                                                                         *)
(* hashlib.sha256 is not computed: main_hash, the SHA-256 of the StateInit *)
(* variant and the code hash, is an input of the model (any 32 bytes).     *)
(***************************************************************************)
\* salt_words[0] ^= iter_idx; salt_words[1] ^= idx  (32-bit words; the words and
\* indices of the model are below 2^31)
SaltOf(base_salt, iter_idx, idx) ==
    <<BitXor(base_salt[1], iter_idx), BitXor(base_salt[2], idx),
      base_salt[3], base_salt[4]>>

\* A variant of repr_bytes that takes the CRC before the first hash byte is rewritten
ReprBytesCrcBeforeRewrite(cfg, main_hash) ==
    LET hash0 == BitOr(BitAnd(main_hash[0], 255 - cfg.free_hash_mask),
                       BitAnd(cfg.free_hash_val, cfg.free_hash_mask))
        head == [i \in 0..33 |->
                    IF i = 0 THEN cfg.flags_hi
                    ELSE IF i = 1 THEN cfg.flags_lo
                    ELSE main_hash[i - 2]]
        crc_val == crc16(head, 34)
    IN [i \in 0..(TOTAL_BYTES - 1) |->
           IF i = 2 THEN hash0
           ELSE IF i < 34 THEN head[i]
           ELSE IF i = 34 THEN Shr(crc_val, 8) % 256
           ELSE crc_val % 256]

\* A variant of repr_bytes that does not clear the free bits of the first hash byte
ReprBytesFreeBitsNotCleared(cfg, main_hash) ==
    LET hash0 == BitOr(main_hash[0], BitAnd(cfg.free_hash_val, cfg.free_hash_mask))
        head == [i \in 0..33 |->
                    IF i = 0 THEN cfg.flags_hi
                    ELSE IF i = 1 THEN cfg.flags_lo
                    ELSE IF i = 2 THEN hash0
                    ELSE main_hash[i - 2]]
        crc_val == crc16(head, 34)
    IN [i \in 0..(TOTAL_BYTES - 1) |->
           IF i < 34 THEN head[i]
           ELSE IF i = 34 THEN Shr(crc_val, 8) % 256
           ELSE crc_val % 256]

\* A variant of repr_bytes that writes free_hash_val without masking it
ReprBytesFreeValUnmasked(cfg, main_hash) ==
    LET hash0 == BitOr(BitAnd(main_hash[0], 255 - cfg.free_hash_mask),
                       cfg.free_hash_val)
        head == [i \in 0..33 |->
                    IF i = 0 THEN cfg.flags_hi
                    ELSE IF i = 1 THEN cfg.flags_lo
                    ELSE IF i = 2 THEN hash0
                    ELSE main_hash[i - 2]]
        crc_val == crc16(head, 34)
    IN [i \in 0..(TOTAL_BYTES - 1) |->
           IF i < 34 THEN head[i]
           ELSE IF i = 34 THEN Shr(crc_val, 8) % 256
           ELSE crc_val % 256]

\* repr_bytes: flags, workchain, the rewritten first hash byte, the hash, the CRC
ReprBytes(cfg, main_hash) ==
    LET hash0 == BitOr(BitAnd(main_hash[0], 255 - cfg.free_hash_mask),
                       BitAnd(cfg.free_hash_val, cfg.free_hash_mask))
        head == [i \in 0..33 |->
                    IF i = 0 THEN cfg.flags_hi
                    ELSE IF i = 1 THEN cfg.flags_lo
                    ELSE IF i = 2 THEN hash0
                    ELSE main_hash[i - 2]]
        crc_val == crc16(head, 34)
    IN [i \in 0..(TOTAL_BYTES - 1) |->
           IF i < 34 THEN head[i]
           ELSE IF i = 34 THEN Shr(crc_val, 8) % 256
           ELSE crc_val % 256]

\* Byte-mask validation
MaskOk(cfg, repr_bytes) ==
    \A i \in 0..(TOTAL_BYTES - 1) :
        cfg.prefix_mask[i] # 0
            => BitAnd(repr_bytes[i], cfg.prefix_mask[i]) = cfg.prefix_val[i]

\* String-level validation of the start pattern
StartOk(cfg, cli, addr_str) ==
    LET slice_start == Slice(addr_str, cfg.start_digit_base,
                             cfg.start_digit_base + Len(cli.start))
    IN IF cli.case_sensitive THEN slice_start = cli.start
       ELSE LowerStr(slice_start) = LowerStr(cli.start)

\* A variant of the end check that accepts every string
EndOkUnchecked(cli, addr_str) ==
    Len(addr_str) >= Len(cli.end)

\* String-level validation of the end pattern
EndOk(cli, addr_str) ==
    LET slice_end == SliceLast(addr_str, Len(cli.end))
    IN IF cli.case_sensitive THEN slice_end = cli.end
       ELSE LowerStr(slice_end) = LowerStr(cli.end)

\* The outcome of process_hit before the sink is touched: (ok, reason) and the entry
\* (of the entry, config repeats cli and timestamp is the wall clock: left out)
ValidateHit(cfg, cli, base_salt, hit, main_hash) ==
    IF hit.variant_idx >= Len(cfg.stateinit_variants)
    THEN [ok |-> FALSE, reason |-> "variant_idx out of range"]
    ELSE LET repr_bytes == ReprBytes(cfg, main_hash)
             addr_str == urlsafe_b64encode(repr_bytes)
             split_idx == hit.variant_idx \div Len(cfg.special_variants)
             special_idx == hit.variant_idx % Len(cfg.special_variants)
             fpl_val == cfg.fixed_prefix_lengths[split_idx + 1]
         IN IF ~MaskOk(cfg, repr_bytes)
            THEN [ok |-> FALSE, reason |-> "prefix mask mismatch"]
            ELSE IF Len(cli.start) > 0 /\ ~StartOk(cfg, cli, addr_str)
            THEN [ok |-> FALSE, reason |-> "start mismatch"]
            ELSE IF Len(cli.end) > 0 /\ ~EndOk(cli, addr_str)
            THEN [ok |-> FALSE, reason |-> "end mismatch"]
            ELSE [ok |-> TRUE, reason |-> "ok",
                  entry |-> [address |-> addr_str,
                             code_salt |-> SaltOf(base_salt, hit.iter_idx, hit.idx),
                             fixedPrefixLength |-> IF fpl_val = None THEN 0 ELSE fpl_val[1],
                             special |-> cfg.special_variants[special_idx + 1]]]

(***************************************************************************)
(* State                                                                   *)
(***************************************************************************)
VARIABLES
    args,         \* sys.argv as parsed by argparse: owner, start, end and the flags
    cli,          \* CliConfig
    cfg,          \* KernelConfig with start_digit_base
    platforms,    \* cl.get_platforms(): per platform its devices and whether the build succeeds
    mpc,          \* main: position
    mloc,         \* main: locals (pass, platform index, devices_used, join index, alive)
    exit_code,    \* exit status of the process, None while it runs
    file_state,   \* addresses.jsonl: "absent", "open", "closed"
    fbuf,         \* ctx.output_file: written, not yet flushed
    sink,         \* addresses.jsonl: flushed content
    stop_flag,    \* ctx.stop_flag
    n_found,      \* ctx.n_found
    total_iters,  \* ctx.total_iters
    status,       \* ctx.status
    output_lock,  \* ctx.output_lock: 0 or the holder
    status_lock,  \* ctx.status_lock: 0 or the holder
    threads,      \* the device workers started, in order
    wpc,          \* device worker: position
    wloc,         \* device worker: locals
    rpc,          \* reporter: position
    rloc,         \* reporter: locals
    stdout,       \* validation failures printed
    candidate,    \* a candidate repr_bytes and its friendly string, None while there is none
    template,     \* the content of kernel.cl
    kernel_src    \* main: kernel_src, None before render_kernel has returned

vars == <<args, cli, cfg, platforms, mpc, mloc, exit_code, file_state, fbuf, sink,
          stop_flag, n_found, total_iters, status, output_lock, status_lock,
          threads, wpc, wloc, rpc, rloc, stdout, candidate, template, kernel_src>>

ctxvars == <<stop_flag, n_found, total_iters, status, output_lock, status_lock>>

mainvars == <<args, cli, cfg, platforms, mpc, mloc, exit_code, threads>>

filevars == <<file_state, fbuf, sink>>

kernelvars == <<template, kernel_src>>

(***************************************************************************)
(* Bounds and inputs of the model                                          *)
(***************************************************************************)
\* Kernel dispatches per device worker
MaxBatches == 1

\* found_count values a dispatch may report: 0..MaxHits
MaxHits == 2

\* Hit processings of the validator harness
MaxCalls == 1

\* The device workers a run may start
DeviceIds == {1, 2}

Free == <<>>

Tid(w) == <<"dev", w>>

ReporterTid == <<"reporter", 0>>

\* 32-byte digests: first, second and last byte given, the rest zero
Digest(h) ==
    [i \in 0..31 |-> IF i = 0 THEN h[1] ELSE IF i = 1 THEN h[2]
                     ELSE IF i = 31 THEN h[3] ELSE 0]

(***************************************************************************)
(* Device heuristics                                                       *)
(***************************************************************************)
\* `word in device.vendor.lower()` for the vendor strings of the model
VendorHas(vendor, word) ==
    \/ word = "nvidia" /\ vendor = "NVIDIA Corporation"
    \/ word = "advanced micro devices" /\ vendor = "Advanced Micro Devices, Inc."
    \/ word = "amd" /\ vendor = "AMD"
    \/ word = "apple" /\ vendor = "Apple"

\* A variant of the heuristics that does not floor the iterations at 512
pick_device_params_no_floor(device, n_variants) ==
    LET cu == IF device.max_compute_units = 0 THEN 1 ELSE device.max_compute_units
        base == IF VendorHas(device.vendor, "nvidia")
                THEN [threads |-> cu * 2048, local |-> 256, iters |-> 4096]
                ELSE IF VendorHas(device.vendor, "advanced micro devices")
                        \/ VendorHas(device.vendor, "amd")
                THEN [threads |-> cu * 2048, local |-> 256, iters |-> 4096]
                ELSE IF VendorHas(device.vendor, "apple")
                THEN [threads |-> cu * 1024, local |-> 256, iters |-> 2048]
                ELSE [threads |-> cu * 1024, local |-> 128, iters |-> 2048]
        iters == IF n_variants > 0 THEN base.iters \div n_variants ELSE base.iters
    IN [global_threads |-> base.threads,
        local_size |-> Min(base.local, device.max_work_group_size),
        iterations |-> iters]

pick_device_params(device, n_variants) ==
    LET cu == IF device.max_compute_units = 0 THEN 1 ELSE device.max_compute_units
        base == IF VendorHas(device.vendor, "nvidia")
                THEN [threads |-> cu * 2048, local |-> 256, iters |-> 4096]
                ELSE IF VendorHas(device.vendor, "advanced micro devices")
                        \/ VendorHas(device.vendor, "amd")
                THEN [threads |-> cu * 2048, local |-> 256, iters |-> 4096]
                ELSE IF VendorHas(device.vendor, "apple")
                THEN [threads |-> cu * 1024, local |-> 256, iters |-> 2048]
                ELSE [threads |-> cu * 1024, local |-> 128, iters |-> 2048]
        iters == IF n_variants > 0 THEN Max(512, base.iters \div n_variants)
                 ELSE base.iters
    IN [global_threads |-> base.threads,
        local_size |-> Min(base.local, device.max_work_group_size),
        iterations |-> iters]

(***************************************************************************)
(* Validator and sink: process_hit, one step per access to shared state    *)
(***************************************************************************)
\* json.dumps(entry, separators=(",", ":")) + "\n": the record and its newline
RecordLine(entry) == <<[kind |-> "json", entry |-> entry], [kind |-> "nl"]>>

\* A variant of the return that counts a rejected hit in n_found
AfterValidateCountsMisses(res) == IF res.ok THEN "ph_lock" ELSE "ph_inc_read"

\* Lines 860-918: each failed test returns (False, reason) at once; a hit that
\* passes them all goes on to the sink at line 953
AfterValidate(res) == IF res.ok THEN "ph_lock" ELSE "hit_return"

\* Lines 857-951 for the hit `hit`: rebuild the candidate and verify it; nothing
\* shared is written
PHValidate(w, base_salt, hit) ==
    LET res == ValidateHit(cfg, cli, base_salt, hit, Digest(hit.h))
    IN /\ wloc' = [wloc EXCEPT ![w].base_salt = base_salt, ![w].hit = hit, ![w].res = res]
       /\ wpc' = [wpc EXCEPT ![w] = AfterValidate(res)]

\* A variant of the acquire that does not wait for the lock to be free
AcquireOutputLockNoWait(w) ==
    output_lock' = Tid(w)

\* Line 953: with ctx.output_lock (acquire)
AcquireOutputLock(w) ==
    /\ output_lock = Free
    /\ output_lock' = Tid(w)

PHLock(w) ==
    /\ wpc[w] = "ph_lock"
    /\ AcquireOutputLock(w)
    /\ wpc' = [wpc EXCEPT ![w] = "ph_write"]
    /\ UNCHANGED <<mainvars, filevars, stop_flag, n_found, total_iters, status,
                   status_lock, wloc, rpc, rloc, stdout, candidate, kernelvars>>

\* An exception inside the with block: the lock is released and the exception
\* leaves process_hit and device_thread, which has no handler: the thread ends
PHRaise(w, exc) ==
    /\ output_lock' = Free
    /\ wpc' = [wpc EXCEPT ![w] = "dead"]
    /\ wloc' = [wloc EXCEPT ![w].exc = exc]
    /\ UNCHANGED <<mainvars, filevars, stop_flag, n_found, total_iters, status,
                   status_lock, rpc, rloc, stdout, candidate, kernelvars>>

\* Line 954: ctx.output_file.write(...), or the write fails
PHWrite(w) ==
    /\ wpc[w] = "ph_write"
    /\ \/ /\ file_state = "open"
          /\ fbuf' = fbuf \o RecordLine(wloc[w].res.entry)
          /\ wpc' = [wpc EXCEPT ![w] = "ph_flush"]
          /\ UNCHANGED <<mainvars, file_state, sink, ctxvars, wloc, rpc, rloc, stdout, candidate, kernelvars>>
       \/ PHRaise(w, IF file_state = "open" THEN "OSError" ELSE "ValueError")

\* Line 955: ctx.output_file.flush(), or the flush fails
PHFlush(w) ==
    /\ wpc[w] = "ph_flush"
    /\ \/ /\ sink' = sink \o fbuf
          /\ fbuf' = <<>>
          /\ wpc' = [wpc EXCEPT ![w] = "ph_unlock"]
          /\ UNCHANGED <<mainvars, file_state, ctxvars, wloc, rpc, rloc, stdout, candidate, kernelvars>>
       \/ PHRaise(w, "OSError")

\* Leaving the with block
PHUnlock(w) ==
    /\ wpc[w] = "ph_unlock"
    /\ output_lock' = Free
    /\ wpc' = [wpc EXCEPT ![w] = "ph_inc_read"]
    /\ UNCHANGED <<mainvars, filevars, stop_flag, n_found, total_iters, status,
                   status_lock, wloc, rpc, rloc, stdout, candidate, kernelvars>>

\* Line 956: ctx.n_found += 1 reads ctx.n_found ...
PHIncRead(w) ==
    /\ wpc[w] = "ph_inc_read"
    /\ wloc' = [wloc EXCEPT ![w].tmp = n_found]
    /\ wpc' = [wpc EXCEPT ![w] = "ph_inc_write"]
    /\ UNCHANGED <<mainvars, filevars, ctxvars, rpc, rloc, stdout, candidate, kernelvars>>

\* ... and stores the sum; line 957: return True, "ok"
PHIncWrite(w) ==
    /\ wpc[w] = "ph_inc_write"
    /\ n_found' = wloc[w].tmp + 1
    /\ wpc' = [wpc EXCEPT ![w] = "hit_return"]
    /\ UNCHANGED <<mainvars, filevars, stop_flag, total_iters, status, output_lock,
                   status_lock, wloc, rpc, rloc, stdout, candidate, kernelvars>>

ProcessHit(w) ==
    \/ PHLock(w)
    \/ PHWrite(w)
    \/ PHFlush(w)
    \/ PHUnlock(w)
    \/ PHIncRead(w)
    \/ PHIncWrite(w)

(***************************************************************************)
(* Device worker: device_thread                                            *)
(***************************************************************************)
NoHit == [iter_idx |-> 0, idx |-> 0, variant_idx |-> 0, h |-> <<0, 0, 0>>]

NoRes == [ok |-> FALSE, reason |-> "none"]

WorkerLocals ==
    [base_salt |-> <<0, 0, 0, 0>>, count |-> 0, slot |-> 0, hit |-> NoHit,
     res |-> NoRes, tmp |-> 0, batches |-> 0, exc |-> "none",
     found_count_g |-> 0, kernel_hits |-> 0]

\* Line 977: while not ctx.stop_flag
WLoopTop(w) ==
    /\ wpc[w] = "loop_top"
    /\ wpc' = [wpc EXCEPT ![w] = IF stop_flag THEN "finished" ELSE "dispatch"]
    /\ UNCHANGED <<mainvars, filevars, ctxvars, wloc, rpc, rloc, stdout, candidate, kernelvars>>

\* A variant of the reset that leaves the device counter as the last batch left it
ResetCounterSkipped(found_count) == found_count

\* Line 982: cl.enqueue_fill_buffer(queue, found_count_g, np.uint32(0), 0, 4)
ResetCounter(found_count) == 0

\* Lines 978-1004: a fresh base salt, the counter reset, the kernel run, which adds
\* the hits it found to the device counter found_count_g, and the copy of the
\* counter to the host; the number of hits is the kernel's, an input. n is the
\* number of batches the worker has started after this one.
Dispatched(w, salts, counts, n) ==
    /\ \E base_salt \in salts, hits \in counts :
          LET found == ResetCounter(wloc[w].found_count_g) + hits
          IN /\ wloc' = [wloc EXCEPT ![w].base_salt = base_salt, ![w].count = found,
                                     ![w].found_count_g = found,
                                     ![w].kernel_hits = hits,
                                     ![w].slot = 0, ![w].batches = n]
             /\ wpc' = [wpc EXCEPT ![w] = IF found > 0 THEN "slot_loop" ELSE "stats_lock"]
    /\ UNCHANGED <<mainvars, filevars, ctxvars, rpc, rloc, stdout, candidate, kernelvars>>

\* A batch of the search: found_count is one of 0..MaxHits
WDispatch(w, salts) ==
    /\ wpc[w] = "dispatch"
    /\ wloc[w].batches < MaxBatches
    /\ Dispatched(w, salts, 0..MaxHits, wloc[w].batches + 1)

\* The locals of a batch that the code no longer reads
ClearBatch(loc) ==
    [loc EXCEPT !.count = 0, !.slot = 0, !.hit = NoHit, !.res = NoRes, !.tmp = 0,
                !.kernel_hits = 0]

\* A variant of the slot loop that goes through found_count slots
WSlotLoopPastSlots(w, hits) ==
    /\ wpc[w] = "slot_loop"
    /\ IF wloc[w].slot < wloc[w].count
       THEN \E hit \in hits : PHValidate(w, wloc[w].base_salt, hit)
       ELSE /\ wpc' = [wpc EXCEPT ![w] = "stats_lock"]
            /\ wloc' = [wloc EXCEPT ![w] = ClearBatch(@)]
    /\ UNCHANGED <<mainvars, filevars, ctxvars, rpc, rloc, stdout, candidate, kernelvars>>

\* A variant of the slot loop that also polls the stop flag before each hit
WSlotLoopPolling(w, hits) ==
    /\ wpc[w] = "slot_loop"
    /\ IF stop_flag
       THEN /\ wpc' = [wpc EXCEPT ![w] = "finished"]
            /\ wloc' = [wloc EXCEPT ![w] = ClearBatch(@)]
       ELSE IF wloc[w].slot < Min(wloc[w].count, RES_SLOTS)
       THEN \E hit \in hits : PHValidate(w, wloc[w].base_salt, hit)
       ELSE /\ wpc' = [wpc EXCEPT ![w] = "stats_lock"]
            /\ wloc' = [wloc EXCEPT ![w] = ClearBatch(@)]
    /\ UNCHANGED <<mainvars, filevars, ctxvars, rpc, rloc, stdout, candidate, kernelvars>>

\* Lines 1005-1009: the next slot of res_host, whose content is the kernel's, and
\* the call of process_hit up to its first access to shared state
WSlotLoop(w, hits) ==
    /\ wpc[w] = "slot_loop"
    /\ IF wloc[w].slot < Min(wloc[w].count, RES_SLOTS)
       THEN \E hit \in hits : PHValidate(w, wloc[w].base_salt, hit)
       ELSE /\ wpc' = [wpc EXCEPT ![w] = "stats_lock"]
            /\ wloc' = [wloc EXCEPT ![w] = ClearBatch(@)]
    /\ UNCHANGED <<mainvars, filevars, ctxvars, rpc, rloc, stdout, candidate, kernelvars>>

\* Lines 1010-1019: a failed validation is printed, sets the stop flag and raises;
\* only_one stops after a persisted hit
WHitReturn(w) ==
    /\ wpc[w] = "hit_return"
    /\ IF ~wloc[w].res.ok
       THEN /\ stdout' = Append(stdout, [reason |-> wloc[w].res.reason,
                                         iter |-> wloc[w].hit.iter_idx,
                                         idx |-> wloc[w].hit.idx,
                                         variant |-> wloc[w].hit.variant_idx])
            /\ stop_flag' = TRUE
            /\ wpc' = [wpc EXCEPT ![w] = "dead"]
            /\ wloc' = [wloc EXCEPT ![w].exc = "RuntimeError"]
       ELSE IF cli.only_one /\ n_found > 0
       THEN /\ stop_flag' = TRUE
            /\ wpc' = [wpc EXCEPT ![w] = "stats_lock"]
            /\ wloc' = [wloc EXCEPT ![w] = ClearBatch(@)]
            /\ UNCHANGED stdout
       ELSE /\ wloc' = [wloc EXCEPT ![w].slot = @ + 1]
            /\ wpc' = [wpc EXCEPT ![w] = "slot_loop"]
            /\ UNCHANGED <<stop_flag, stdout>>
    /\ UNCHANGED <<mainvars, filevars, n_found, total_iters, status, output_lock,
                   status_lock, rpc, rloc, candidate, kernelvars>>

\* Line 1032: with ctx.status_lock (acquire)
WStatsLock(w) ==
    /\ wpc[w] = "stats_lock"
    /\ status_lock = Free
    /\ status_lock' = Tid(w)
    /\ wpc' = [wpc EXCEPT ![w] = "stats_update"]
    /\ UNCHANGED <<mainvars, filevars, stop_flag, n_found, total_iters, status,
                   output_lock, wloc, rpc, rloc, stdout, candidate, kernelvars>>

\* Lines 1021-1042: the batch's statistics, and leaving the with block
\* (the wall-clock fields speed_raw, speed_eff, batch_time, updated are left out)
WStatsUpdate(w) ==
    /\ wpc[w] = "stats_update"
    /\ LET params == pick_device_params(threads[w], Len(cfg.stateinit_variants))
       IN /\ total_iters' = total_iters + params.global_threads * params.iterations
                                          * Len(cfg.stateinit_variants)
          /\ status' = [status EXCEPT !.found = n_found,
                                      !.threads = params.global_threads,
                                      !.iterations = params.iterations,
                                      !.local = params.local_size]
    /\ status_lock' = Free
    /\ wpc' = [wpc EXCEPT ![w] = "loop_top"]
    /\ UNCHANGED <<mainvars, filevars, stop_flag, n_found, output_lock, wloc, rpc,
                   rloc, stdout, candidate, kernelvars>>

NoStats == [found |-> 0, threads |-> 0, iterations |-> 0, local |-> 0, variants |-> 0]

(***************************************************************************)
(* Status reporter: reporter_thread                                        *)
(***************************************************************************)
\* A variant of the reporter's loop test that never sees the stop flag
RTopNeverStops ==
    /\ rpc = "r_top"
    /\ rpc' = "r_lock"
    /\ UNCHANGED <<mainvars, filevars, ctxvars, wpc, wloc, rloc, stdout, candidate, kernelvars>>

\* Line 1081: while not ctx.stop_flag
RTop ==
    /\ rpc = "r_top"
    /\ rpc' = IF stop_flag THEN "finished" ELSE "r_lock"
    /\ UNCHANGED <<mainvars, filevars, ctxvars, wpc, wloc, rloc, stdout, candidate, kernelvars>>

\* Line 1082: with ctx.status_lock (acquire)
RLock ==
    /\ rpc = "r_lock"
    /\ status_lock = Free
    /\ status_lock' = ReporterTid
    /\ rpc' = "r_snap"
    /\ UNCHANGED <<mainvars, filevars, stop_flag, n_found, total_iters, status,
                   output_lock, wpc, wloc, rloc, stdout, candidate, kernelvars>>

\* Line 1083: the snapshot, and leaving the with block
RSnap ==
    /\ rpc = "r_snap"
    /\ rloc' = [rloc EXCEPT !.snap = status]
    /\ status_lock' = Free
    /\ rpc' = "r_total"
    /\ UNCHANGED <<mainvars, filevars, stop_flag, n_found, total_iters, status,
                   output_lock, wpc, wloc, stdout, candidate, kernelvars>>

\* Lines 1084-1103: ctx.total_iters is read; when it is positive the status line
\* is printed from the snapshot; the reporter sleeps and the snapshot is dropped
RTotal ==
    /\ rpc = "r_total"
    /\ rloc' = [rloc EXCEPT !.snap = NoStats,
                            !.shown = IF total_iters <= 0 THEN @ ELSE rloc.snap.found]
    /\ rpc' = "r_top"
    /\ UNCHANGED <<mainvars, filevars, ctxvars, wpc, wloc, stdout, candidate, kernelvars>>

Reporter == RTop \/ RLock \/ RSnap \/ RTotal

(***************************************************************************)
(* Driver: die, parse_cli, main                                            *)
(***************************************************************************)
NoCli ==
    [owner |-> <<>>, start |-> <<>>, end |-> <<>>, masterchain |-> FALSE,
     non_bounceable |-> FALSE, testnet |-> FALSE, case_sensitive |-> FALSE,
     only_one |-> FALSE]

NoCfg == [flags_hi |-> 0]

\* die: the message goes to stderr and the process exits
die == <<1>>

\* len(base64.urlsafe_b64decode(owner + "==")); None when the decoder raises
DecodedLen(owner) ==
    IF Len(owner) % 4 = 1 THEN None ELSE <<(Len(owner) * 6) \div 8>>

\* The exit of parse_cli: None when it returns a CliConfig, else <<exit code>>
ParseExit(a) ==
    IF ~a.argv THEN <<0>>
    ELSE IF a.owner = None THEN <<2>>
    ELSE IF Len(a.start) = 0 /\ Len(a.end) = 0 THEN <<0>>
    ELSE IF ~is_base64url(a.owner[1]) THEN die
    ELSE IF DecodedLen(a.owner[1]) = None THEN die
    ELSE IF DecodedLen(a.owner[1])[1] < 34 THEN die
    ELSE IF Len(a.start) > 0 /\ ~is_base64url(a.start) THEN die
    ELSE IF Len(a.end) > 0 /\ ~is_base64url(a.end) THEN die
    ELSE None

\* Line 1200: cli = parse_cli()
MParse ==
    /\ mpc = "parse_cli"
    /\ IF ParseExit(args) = None
       THEN /\ cli' = [owner |-> args.owner[1], start |-> args.start, end |-> args.end,
                       masterchain |-> args.masterchain,
                       non_bounceable |-> args.non_bounceable,
                       testnet |-> args.testnet,
                       case_sensitive |-> args.case_sensitive,
                       only_one |-> args.only_one]
            /\ mpc' = "build"
            /\ UNCHANGED exit_code
       ELSE /\ exit_code' = ParseExit(args)
            /\ mpc' = "exited"
            /\ UNCHANGED cli
    /\ UNCHANGED <<args, cfg, platforms, mloc, threads, filevars, ctxvars, wpc, wloc,
                   rpc, rloc, stdout, candidate, kernelvars>>

\* Lines 1201-1208: the kernel configuration, the kernel source, the platforms
MBuild ==
    /\ mpc = "build"
    /\ cfg' = build_kernel_config(cli)
    /\ kernel_src' = <<render_kernel(cfg', template)>>
    /\ mpc' = "ctx"
    /\ UNCHANGED <<args, cli, platforms, mloc, exit_code, threads, filevars, ctxvars,
                   wpc, wloc, rpc, rloc, stdout, candidate, template>>

\* Line 1210 and SearchContext.__init__: the shared state, and open(..., "a")
MCtx ==
    /\ mpc = "ctx"
    /\ stop_flag' = FALSE
    /\ n_found' = 0
    /\ total_iters' = 0
    /\ status' = [found |-> 0, threads |-> 0, iterations |-> 0, local |-> 0,
                  variants |-> Len(cfg.stateinit_variants)]
    /\ output_lock' = Free
    /\ status_lock' = Free
    /\ file_state' = "open"
    /\ mloc' = [mloc EXCEPT !.pass = "GPU", !.p = 1, !.d = 0]
    /\ mpc' = "attach"
    /\ UNCHANGED <<args, cli, cfg, platforms, exit_code, threads, fbuf, sink, wpc,
                   wloc, rpc, rloc, stdout, candidate, kernelvars>>

\* platform.get_devices(device_type)
GetDevices(platform, pass) ==
    IF pass = "GPU" THEN platform.gpus ELSE platform.gpus \o platform.others

\* Lines 1212-1217 and 1229-1238: the next platform of the pass: no device, a
\* failed build, or the program built; after the last platform the second pass
\* or the check of devices_used
MAttach ==
    /\ mpc = "attach"
    /\ IF mloc.p <= Len(platforms)
       THEN LET devices == GetDevices(platforms[mloc.p], mloc.pass)
            IN IF Len(devices) = 0
               THEN /\ mloc' = [mloc EXCEPT !.p = @ + 1]
                    /\ UNCHANGED <<mpc, exit_code>>
               ELSE IF ~platforms[mloc.p].build_ok
               THEN /\ mpc' = "crashed"
                    /\ UNCHANGED <<mloc, exit_code>>
               ELSE /\ mloc' = [mloc EXCEPT !.d = 1]
                    /\ mpc' = "start_thread"
                    /\ UNCHANGED exit_code
       ELSE IF Len(threads) = 0 /\ mloc.pass = "GPU"
       THEN /\ mloc' = [mloc EXCEPT !.pass = "ALL", !.p = 1]
            /\ UNCHANGED <<mpc, exit_code>>
       ELSE IF Len(threads) = 0
       THEN /\ exit_code' = die
            /\ mpc' = "exited"
            /\ UNCHANGED mloc
       ELSE /\ mpc' = "start_reporter"
            /\ UNCHANGED <<mloc, exit_code>>
    /\ UNCHANGED <<args, cli, cfg, platforms, threads, filevars, ctxvars, wpc, wloc,
                   rpc, rloc, stdout, candidate, kernelvars>>

\* Lines 1218-1227: t.start() for the next device of the platform
MStartThread ==
    /\ mpc = "start_thread"
    /\ LET devices == GetDevices(platforms[mloc.p], mloc.pass)
       IN IF mloc.d <= Len(devices)
          THEN /\ threads' = Append(threads, devices[mloc.d])
               /\ wpc' = [wpc EXCEPT ![Len(threads) + 1] = "loop_top"]
               /\ mloc' = [mloc EXCEPT !.d = @ + 1]
               /\ UNCHANGED mpc
          ELSE /\ mloc' = [mloc EXCEPT !.p = @ + 1]
               /\ mpc' = "attach"
               /\ UNCHANGED <<threads, wpc>>
    /\ UNCHANGED <<args, cli, cfg, platforms, exit_code, filevars, ctxvars, wloc, rpc,
                   rloc, stdout, candidate, kernelvars>>

\* Lines 1240-1241: the reporter thread
MStartReporter ==
    /\ mpc = "start_reporter"
    /\ rpc' = "r_top"
    /\ mpc' = "wait"
    /\ UNCHANGED <<args, cli, cfg, platforms, mloc, exit_code, threads, filevars,
                   ctxvars, wpc, wloc, rloc, stdout, candidate, kernelvars>>

IsAlive(w) == wpc[w] \notin {"unstarted", "finished", "dead"}

\* Lines 1244-1250: one round of the wait loop
MWait ==
    /\ mpc = "wait"
    /\ mpc' = IF stop_flag \/ ~(\E w \in 1..Len(threads) : IsAlive(w))
              THEN "finally" ELSE "wait"
    /\ UNCHANGED <<args, cli, cfg, platforms, mloc, exit_code, threads, filevars,
                   ctxvars, wpc, wloc, rpc, rloc, stdout, candidate, kernelvars>>

\* Lines 1251-1253: Ctrl-C in the wait loop
MInterrupt ==
    /\ mpc = "wait"
    /\ stop_flag' = TRUE
    /\ mpc' = "finally"
    /\ UNCHANGED <<args, cli, cfg, platforms, mloc, exit_code, threads, filevars,
                   n_found, total_iters, status, output_lock, status_lock, wpc, wloc,
                   rpc, rloc, stdout, candidate, kernelvars>>

\* Line 1255: ctx.stop_flag = True
MFinally ==
    /\ mpc = "finally"
    /\ stop_flag' = TRUE
    /\ mloc' = [mloc EXCEPT !.d = 1]
    /\ mpc' = "join"
    /\ UNCHANGED <<args, cli, cfg, platforms, exit_code, threads, filevars, n_found,
                   total_iters, status, output_lock, status_lock, wpc, wloc, rpc, rloc,
                   stdout, candidate, kernelvars>>

\* A variant of the joins that does not wait for the thread to end
MJoinNoWait ==
    /\ mpc = "join"
    /\ IF mloc.d <= Len(threads)
       THEN /\ mloc' = [mloc EXCEPT !.d = @ + 1]
            /\ UNCHANGED mpc
       ELSE /\ mpc' = "close"
            /\ UNCHANGED mloc
    /\ UNCHANGED <<args, cli, cfg, platforms, exit_code, threads, filevars, ctxvars,
                   wpc, wloc, rpc, rloc, stdout, candidate, kernelvars>>

\* Lines 1256-1258: t.join() for each worker, then reporter.join()
MJoin ==
    /\ mpc = "join"
    /\ IF mloc.d <= Len(threads)
       THEN /\ ~IsAlive(mloc.d)
            /\ mloc' = [mloc EXCEPT !.d = @ + 1]
            /\ UNCHANGED mpc
       ELSE /\ rpc = "finished"
            /\ mpc' = "close"
            /\ UNCHANGED mloc
    /\ UNCHANGED <<args, cli, cfg, platforms, exit_code, threads, filevars, ctxvars,
                   wpc, wloc, rpc, rloc, stdout, candidate, kernelvars>>

\* Line 1259: ctx.output_file.close(), which flushes what is buffered; main
\* returns and the interpreter exits with status 0
MClose ==
    /\ mpc = "close"
    /\ sink' = sink \o fbuf
    /\ fbuf' = <<>>
    /\ file_state' = "closed"
    /\ exit_code' = <<0>>
    /\ mpc' = "done"
    /\ UNCHANGED <<args, cli, cfg, platforms, mloc, threads, ctxvars, wpc, wloc, rpc,
                   rloc, stdout, candidate, kernelvars>>

\* An exception that left main (a failed build): the interpreter waits for the
\* device workers, which are not daemon threads, and exits with status 1
MCrashExit ==
    /\ mpc = "crashed"
    /\ \A w \in 1..Len(threads) : ~IsAlive(w)
    /\ exit_code' = <<1>>
    /\ mpc' = "exited"
    /\ UNCHANGED <<args, cli, cfg, platforms, mloc, threads, filevars, ctxvars, wpc,
                   wloc, rpc, rloc, stdout, candidate, kernelvars>>

Main ==
    \/ MParse
    \/ MBuild
    \/ MCtx
    \/ MAttach
    \/ MStartThread
    \/ MStartReporter
    \/ MWait
    \/ MInterrupt
    \/ MFinally
    \/ MJoin
    \/ MClose
    \/ MCrashExit

(***************************************************************************)
(* The search: main, the device workers and the reporter                   *)
(***************************************************************************)
\* "EQAAAAAAAAAAAAAAAAAAAAAAAAAAAAAAAAAAAAAAAAAAAM9c"
OwnerOk == <<69, 81>> \o [i \in 1..43 |-> 65] \o <<77, 57, 99>>

\* "EQ!A", "EQAA", "EQAAA"
OwnerBadChar == <<69, 81, 33, 65>>

OwnerShort == <<69, 81, 65, 65>>

OwnerOdd == <<69, 81, 65, 65, 65>>

\* --owner OwnerOk --start EQAAB --case-sensitive
ArgsOk ==
    [argv |-> TRUE, owner |-> <<OwnerOk>>, start |-> <<69, 81, 65, 65, 66>>,
     end |-> <<>>, masterchain |-> FALSE, non_bounceable |-> FALSE,
     testnet |-> FALSE, case_sensitive |-> TRUE, only_one |-> FALSE]

SearchArgs ==
    {[ArgsOk EXCEPT !.only_one = o] : o \in BOOLEAN}
    \cup {[ArgsOk EXCEPT !.argv = FALSE],
          [ArgsOk EXCEPT !.owner = None],
          [ArgsOk EXCEPT !.start = <<>>],
          [ArgsOk EXCEPT !.owner = <<OwnerBadChar>>],
          [ArgsOk EXCEPT !.owner = <<OwnerShort>>],
          [ArgsOk EXCEPT !.owner = <<OwnerOdd>>],
          [ArgsOk EXCEPT !.start = <<69, 33>>],
          [ArgsOk EXCEPT !.end = <<33>>]}

GpuA == [vendor |-> "NVIDIA Corporation", max_compute_units |-> 2, max_work_group_size |-> 1024]

GpuB == [vendor |-> "Apple", max_compute_units |-> 0, max_work_group_size |-> 256]

CpuC == [vendor |-> "Intel(R) Corporation", max_compute_units |-> 4, max_work_group_size |-> 64]

Platform(gpus, others, build_ok) == [gpus |-> gpus, others |-> others, build_ok |-> build_ok]

PlatformLayouts ==
    {<<>>,
     <<Platform(<<>>, <<>>, TRUE)>>,
     <<Platform(<<GpuA>>, <<>>, TRUE)>>,
     <<Platform(<<GpuA, GpuB>>, <<>>, TRUE)>>,
     <<Platform(<<GpuA>>, <<>>, FALSE)>>,
     <<Platform(<<GpuA>>, <<>>, TRUE), Platform(<<GpuB>>, <<>>, FALSE)>>,
     <<Platform(<<>>, <<CpuC>>, TRUE)>>}

\* os.urandom(16) as four 32-bit words
SearchSalts == {<<7, 0, 0, 0>>}

\* What a result slot may hold: a digest that passes "EQAAB" or one that fails
\* its mask, a variant index in range or out of range
SearchHits ==
    {[iter_idx |-> 0, idx |-> 1, variant_idx |-> 0, h |-> <<0, 4, 0>>],
     [iter_idx |-> 0, idx |-> 1, variant_idx |-> 0, h |-> <<0, 0, 0>>],
     [iter_idx |-> 0, idx |-> 1, variant_idx |-> 5, h |-> <<0, 4, 0>>]}

\* kernel.cl with every tag that render_kernel fills, each once, between text
KernelTemplate ==
    [i \in 1..(2 * Len(KernelTags) + 1) |->
        IF i % 2 = 1 THEN Text("cl") ELSE Tag(KernelTags[i \div 2])]

Init ==
    /\ args \in SearchArgs
    /\ platforms \in PlatformLayouts
    /\ cli = NoCli
    /\ cfg = NoCfg
    /\ mpc = "parse_cli"
    /\ mloc = [pass |-> "GPU", p |-> 1, d |-> 0]
    /\ exit_code = None
    /\ file_state = "absent"
    /\ fbuf = <<>>
    /\ sink = <<>>
    /\ stop_flag = FALSE
    /\ n_found = 0
    /\ total_iters = 0
    /\ status = NoStats
    /\ output_lock = Free
    /\ status_lock = Free
    /\ threads = <<>>
    /\ wpc = [w \in DeviceIds |-> "unstarted"]
    /\ wloc = [w \in DeviceIds |-> WorkerLocals]
    /\ rpc = "unstarted"
    /\ rloc = [snap |-> NoStats, shown |-> 0]
    /\ stdout = <<>>
    /\ candidate = None
    /\ template = KernelTemplate
    /\ kernel_src = None

DeviceThread(w) ==
    \/ WLoopTop(w)
    \/ WDispatch(w, SearchSalts)
    \/ WSlotLoop(w, SearchHits)
    \/ ProcessHit(w)
    \/ WHitReturn(w)
    \/ WStatsLock(w)
    \/ WStatsUpdate(w)

Next ==
    \/ Main
    \/ \E w \in DeviceIds : DeviceThread(w)
    \/ Reporter

Spec == Init /\ [][Next]_vars

(***************************************************************************)
(* The validator alone: process_hit called on handcrafted hits             *)
(***************************************************************************)
\* Digests tried: the last byte runs over 0..MaxLastByte
MaxLastByte == 7

HarnessDigests ==
    {<<255, 4, c>> : c \in 0..MaxLastByte} \cup {<<0, 4, 0>>, <<0, 255, 0>>}

HarnessHits ==
    {[iter_idx |-> 2, idx |-> 1, variant_idx |-> 0, h |-> h] : h \in HarnessDigests}
    \cup {[iter_idx |-> 0, idx |-> 0, variant_idx |-> v, h |-> <<0, 4, 0>>] :
              v \in {4, 5, 50}}

HarnessSalts == {<<7, 0, 0, 0>>}

\* "", "EQAAB", "b"
HarnessStarts == {<<>>, <<69, 81, 65, 65, 66>>, <<98>>}

\* "", "M"
HarnessEnds == {<<>>, <<77>>}

HarnessClis ==
    {[owner |-> OwnerOk, start |-> s, end |-> e, masterchain |-> FALSE,
      non_bounceable |-> FALSE, testnet |-> t, case_sensitive |-> c,
      only_one |-> FALSE] :
        s \in HarnessStarts, e \in HarnessEnds, t \in BOOLEAN, c \in BOOLEAN}

\* The state in which process_hit is called: the context built for cli, the sink
\* open, n workers that are about to call
SearchInitOn(clis, devices, pc, main_pc) ==
    /\ cli \in clis
    /\ threads \in devices
    /\ cfg = build_kernel_config(cli)
    /\ args = [ArgsOk EXCEPT !.start = cli.start, !.end = cli.end,
                             !.testnet = cli.testnet,
                             !.case_sensitive = cli.case_sensitive]
    /\ platforms = <<Platform(threads, <<>>, TRUE)>>
    /\ mpc = main_pc
    /\ mloc = [pass |-> "GPU", p |-> 2, d |-> Len(threads) + 1]
    /\ exit_code = None
    /\ file_state = "open"
    /\ fbuf = <<>>
    /\ sink = <<>>
    /\ stop_flag = FALSE
    /\ n_found = 0
    /\ total_iters = 0
    /\ status = [NoStats EXCEPT !.variants = Len(cfg.stateinit_variants)]
    /\ output_lock = Free
    /\ status_lock = Free
    /\ wpc = [w \in DeviceIds |-> IF w <= Len(threads) THEN pc ELSE "unstarted"]
    /\ wloc = [w \in DeviceIds |-> WorkerLocals]
    /\ rpc = "unstarted"
    /\ rloc = [snap |-> NoStats, shown |-> 0]
    /\ stdout = <<>>
    /\ candidate = None
    /\ template = KernelTemplate
    /\ kernel_src = <<render_kernel(cfg, template)>>

\* The same with main in its wait loop (the reporter is not started)
HarnessInitOn(clis, devices, pc) == SearchInitOn(clis, devices, pc, "wait")

\* The context with the first n of the devices GpuA, GpuB attached
HarnessInitAt(clis, n, pc) == HarnessInitOn(clis, {SubSeq(<<GpuA, GpuB>>, 1, n)}, pc)

HarnessInit(clis, n) == HarnessInitAt(clis, n, "idle")

\* process_hit(ctx, base_salt, iter_idx, idx, variant_idx) is called by worker w,
\* for at most MaxCalls hits
HCall(w, hits) ==
    /\ wpc[w] = "idle"
    /\ wloc[w].batches < MaxCalls
    /\ \E base_salt \in HarnessSalts, hit \in hits :
          /\ wloc' = [wloc EXCEPT ![w].base_salt = base_salt, ![w].hit = hit,
                                  ![w].res = ValidateHit(cfg, cli, base_salt, hit,
                                                         Digest(hit.h)),
                                  ![w].batches = @ + 1]
          /\ wpc' = [wpc EXCEPT ![w] = AfterValidate(wloc'[w].res)]
    /\ UNCHANGED <<mainvars, filevars, ctxvars, rpc, rloc, stdout, candidate, kernelvars>>

\* process_hit has returned (ok, reason) to the caller
HReturn(w) ==
    /\ wpc[w] = "hit_return"
    /\ wpc' = [wpc EXCEPT ![w] = "idle"]
    /\ wloc' = [wloc EXCEPT ![w] = ClearBatch(@)]
    /\ UNCHANGED <<mainvars, filevars, ctxvars, rpc, rloc, stdout, candidate, kernelvars>>

InitHit == HarnessInit({c \in HarnessClis : Len(c.start) > 0 \/ Len(c.end) > 0}, 1)

NextHit == HCall(1, HarnessHits) \/ ProcessHit(1) \/ HReturn(1)

SpecHit == InitHit /\ [][NextHit]_vars

(***************************************************************************)
(* The sink under concurrent calls of process_hit                          *)
(***************************************************************************)
\* --start EQAAB --case-sensitive
SinkClis ==
    {[owner |-> OwnerOk, start |-> ArgsOk.start, end |-> <<>>, masterchain |-> FALSE,
      non_bounceable |-> FALSE, testnet |-> FALSE, case_sensitive |-> TRUE,
      only_one |-> FALSE]}

\* Two hits that pass for "EQAAB" and one that fails its mask
SinkHits ==
    {[iter_idx |-> 0, idx |-> 1, variant_idx |-> 0, h |-> <<0, 4, 0>>],
     [iter_idx |-> 1, idx |-> 2, variant_idx |-> 1, h |-> <<0, 5, 9>>],
     [iter_idx |-> 0, idx |-> 3, variant_idx |-> 0, h |-> <<0, 0, 0>>]}

InitSink == HarnessInit(SinkClis, 2)

NextSink == \E w \in DeviceIds : HCall(w, SinkHits) \/ ProcessHit(w) \/ HReturn(w)

SpecSink == InitSink /\ [][NextSink]_vars

(***************************************************************************)
(* The validator run twice on one input: the second run sees a             *)
(* configuration whose free_hash_val differs in one bit                    *)
(***************************************************************************)
\* The hits (base_salt, 0, 0, 0) over the digests tried, and the other handcrafted hits
AlteredHits ==
    {[iter_idx |-> 0, idx |-> 0, variant_idx |-> 0, h |-> h] : h \in HarnessDigests}
    \cup HarnessHits

\* The configuration with bit b of free_hash_val inverted
WithFreeHashValBit(c, b) == [c EXCEPT !.free_hash_val = BitXor(@, Pow2(b))]

\* process_hit has accepted the input of worker first and persisted its record;
\* worker again calls process_hit with the same input (lines 857-951) after
\* one bit of cfg.free_hash_val has been inverted
HCallAltered(again, first) ==
    /\ wpc[first] = "hit_return"
    /\ wloc[first].res.ok
    /\ wpc[again] = "idle"
    /\ wloc[again].batches < MaxCalls
    /\ \E b \in 0..7 :
          /\ cfg' = WithFreeHashValBit(cfg, b)
          /\ wloc' = [wloc EXCEPT ![again].base_salt = wloc[first].base_salt,
                                  ![again].hit = wloc[first].hit,
                                  ![again].res = ValidateHit(cfg', cli,
                                                            wloc[first].base_salt,
                                                            wloc[first].hit,
                                                            Digest(wloc[first].hit.h)),
                                  ![again].batches = @ + 1]
          /\ wpc' = [wpc EXCEPT ![again] = IF wloc'[again].res.ok THEN "ph_lock"
                                                                  ELSE "hit_return"]
    /\ UNCHANGED <<args, cli, platforms, mpc, mloc, exit_code, threads, filevars,
                   ctxvars, rpc, rloc, stdout, candidate, kernelvars>>

InitAltered == HarnessInit({c \in HarnessClis : Len(c.start) > 0 \/ Len(c.end) > 0}, 2)

NextAltered ==
    \/ HCall(1, AlteredHits)
    \/ ProcessHit(1)
    \/ HCallAltered(2, 1)
    \/ ProcessHit(2)

SpecAltered == InitAltered /\ [][NextAltered]_vars

(***************************************************************************)
(* The validator on every first hash byte, under configurations with       *)
(* different free-byte masks                                               *)
(***************************************************************************)
\* "EQAAB", "kQBE", "B", "Uf", each on mainnet and testnet, with and without case,
\* and the end pattern "M"
FreeByteClis ==
    {[owner |-> OwnerOk, start |-> s, end |-> <<>>, masterchain |-> FALSE,
      non_bounceable |-> FALSE, testnet |-> t, case_sensitive |-> c,
      only_one |-> FALSE] :
        s \in {<<69, 81, 65, 65, 66>>, <<107, 81, 66, 69>>, <<66>>, <<85, 102>>},
        t \in BOOLEAN, c \in BOOLEAN}
    \cup {c \in HarnessClis : c.start = <<>> /\ c.end = <<77>> /\ ~c.testnet}

\* Hits whose digest starts with each byte 0..255
FreeByteHits ==
    {[iter_idx |-> 0, idx |-> 0, variant_idx |-> 0, h |-> <<hash0, 4, 0>>] :
        hash0 \in 0..255}

InitFreeByte == HarnessInit(FreeByteClis, 1)

NextFreeByte == HCall(1, FreeByteHits) \/ ProcessHit(1) \/ HReturn(1)

SpecFreeByte == InitFreeByte /\ [][NextFreeByte]_vars

(***************************************************************************)
(* A worker alone: one device thread started on a built context, and the  *)
(* driver's interrupt                                                      *)
(***************************************************************************)
\* --start EQAAB --case-sensitive, with and without --only-one
WorkerClis == {[c EXCEPT !.only_one = o] : c \in SinkClis, o \in BOOLEAN}

InitWorker == HarnessInitAt(WorkerClis, 1, "loop_top")

NextWorker == DeviceThread(1) \/ MInterrupt

SpecWorker == InitWorker /\ [][NextWorker]_vars

(***************************************************************************)
(* The end of a search: one device worker, the reporter and main from the  *)
(* start of the reporter (line 1240) to the close of the output file       *)
(***************************************************************************)
\* Lines 978-1004 for a worker that passed the loop test before the stop flag was
\* set: the batch it is about to start still runs. MaxBatches limits the batches
\* started while the search goes on, not this one.
WDispatchLast(w, salts) ==
    /\ wpc[w] = "dispatch"
    /\ stop_flag
    /\ wloc[w].batches >= MaxBatches
    /\ Dispatched(w, salts, 0..MaxHits, wloc[w].batches)

InitShutdown == SearchInitOn(WorkerClis, {<<GpuA>>}, "loop_top", "start_reporter")

\* Lines 1240-1259 of main
MainShutdown == MStartReporter \/ MWait \/ MFinally \/ MJoin \/ MClose

WorkerShutdown == DeviceThread(1) \/ WDispatchLast(1, SearchSalts)

NextShutdown == MainShutdown \/ MInterrupt \/ WorkerShutdown \/ Reporter

SpecShutdown == InitShutdown /\ [][NextShutdown]_vars

\* Every thread that can take a step is scheduled in the end; Ctrl-C may never come
FairShutdown ==
    /\ WF_vars(MainShutdown)
    /\ WF_vars(WorkerShutdown)
    /\ WF_vars(Reporter)

SpecShutdownFair == SpecShutdown /\ FairShutdown

(***************************************************************************)
(* A worker whose first batch fills every result slot                      *)
(***************************************************************************)
\* found_count of a batch in which the kernel found as many hits as there are
\* slots, or more
FullCounts == {RES_SLOTS, RES_SLOTS + MaxHits}

\* Lines 978-1004 for the first batch of the search, with one of these counts;
\* MaxBatches limits the batches after it
WDispatchFull(w, salts) ==
    /\ wpc[w] = "dispatch"
    /\ total_iters = 0
    /\ wloc[w].batches = 0
    /\ Dispatched(w, salts, FullCounts, 0)

InitSlots == HarnessInitAt(WorkerClis, 1, "loop_top")

NextSlots == DeviceThread(1) \/ WDispatchFull(1, SearchSalts)

SpecSlots == InitSlots /\ [][NextSlots]_vars

(***************************************************************************)
(* The validator on hits of every kind of rejection                        *)
(***************************************************************************)
RejectClis ==
    FreeByteClis \cup {c \in HarnessClis : Len(c.start) > 0 \/ Len(c.end) > 0}

\* The hits of the validator harness, and hits whose digest starts with a small byte
RejectHits ==
    HarnessHits
    \cup {[iter_idx |-> 0, idx |-> 0, variant_idx |-> 0, h |-> <<hash0, 4, 0>>] :
              hash0 \in 0..MaxLastByte}

InitReject == HarnessInit(RejectClis, 1)

NextReject == HCall(1, RejectHits) \/ ProcessHit(1) \/ HReturn(1)

SpecReject == InitReject /\ [][NextReject]_vars

(***************************************************************************)
(* A worker on a range of devices: the parameters of pick_device_params as *)
(* the worker publishes them in the status                                 *)
(***************************************************************************)
\* Largest number of compute units tried
MaxComputeUnits == 2

ParamVendors ==
    {"NVIDIA Corporation", "Advanced Micro Devices, Inc.", "AMD", "Apple",
     "Intel(R) Corporation"}

ParamDevices ==
    {[vendor |-> v, max_compute_units |-> cu, max_work_group_size |-> wg] :
        v \in ParamVendors, cu \in 0..MaxComputeUnits, wg \in {64, 256, 1024}}

\* --start EQAAB (5 variants), --end M (50 variants)
ParamClis ==
    SinkClis \cup {[c EXCEPT !.start = <<>>, !.end = <<77>>] : c \in SinkClis}

InitParams == HarnessInitOn(ParamClis, {<<d>> : d \in ParamDevices}, "loop_top")

NextParams == DeviceThread(1)

SpecParams == InitParams /\ [][NextParams]_vars

(***************************************************************************)
(* The pattern compiler alone: build_kernel_config on a range of patterns, *)
(* and candidate repr_bytes for the masks it produces                      *)
(***************************************************************************)
\* Longest start pattern tried
MaxStartLen == 49

\* Candidates differ from the mask values in one of the first or last
\* MaxFlipBit + 1 bits
MaxFlipBit == 47

\* head followed by "A"s, n digits in all
Pad(head, n) == head \o [i \in 1..(n - Len(head)) |-> 65]

\* "", "E", "EQAAB", "kQBE", "B", "b", "Q", "9", "Uf", "EQAA..A" of 42 digits,
\* "AA..A" of 45..MaxStartLen digits
CfgStarts ==
    {<<>>, <<69>>, <<69, 81, 65, 65, 66>>, <<107, 81, 66, 69>>, <<66>>, <<98>>, <<81>>,
     <<57>>, <<85, 102>>, Pad(<<69, 81>>, 42)}
    \cup {Pad(<<>>, n) : n \in 45..MaxStartLen}

\* "", "M", "a9", "AAAA", "BBBBBBB", "AA..A" of 46 digits
CfgEnds ==
    {<<>>, <<77>>, <<97, 57>>, Pad(<<>>, 4), <<66, 66, 66, 66, 66, 66, 66>>,
     Pad(<<>>, 46)}

\* mainnet bounceable, testnet, non-bounceable on the masterchain
CfgFlags == {<<FALSE, FALSE, FALSE>>, <<FALSE, TRUE, FALSE>>, <<TRUE, FALSE, TRUE>>}

CfgClis ==
    {[owner |-> OwnerOk, start |-> s, end |-> e, masterchain |-> f[3],
      non_bounceable |-> f[1], testnet |-> f[2], case_sensitive |-> c,
      only_one |-> FALSE] :
        s \in CfgStarts, e \in CfgEnds, f \in CfgFlags, c \in BOOLEAN}

InitBuildOn(clis, templates) ==
    /\ cli \in clis
    /\ cfg = NoCfg
    /\ args = [ArgsOk EXCEPT !.start = cli.start, !.end = cli.end,
                             !.masterchain = cli.masterchain,
                             !.non_bounceable = cli.non_bounceable,
                             !.testnet = cli.testnet,
                             !.case_sensitive = cli.case_sensitive]
    /\ platforms = <<>>
    /\ mpc = "build"
    /\ mloc = [pass |-> "GPU", p |-> 1, d |-> 0]
    /\ exit_code = None
    /\ file_state = "absent"
    /\ fbuf = <<>>
    /\ sink = <<>>
    /\ stop_flag = FALSE
    /\ n_found = 0
    /\ total_iters = 0
    /\ status = NoStats
    /\ output_lock = Free
    /\ status_lock = Free
    /\ threads = <<>>
    /\ wpc = [w \in DeviceIds |-> "unstarted"]
    /\ wloc = [w \in DeviceIds |-> WorkerLocals]
    /\ rpc = "unstarted"
    /\ rloc = [snap |-> NoStats, shown |-> 0]
    /\ stdout = <<>>
    /\ candidate = None
    /\ template \in templates
    /\ kernel_src = None

InitCfgOn(templates) ==
    InitBuildOn({c \in CfgClis : Len(c.start) > 0 \/ Len(c.end) > 0}, templates)

InitCfg == InitCfgOn({KernelTemplate})

\* The bytes that carry the flags, the free-byte value and the mask values, every
\* unconstrained bit equal to fill (0 or 1)
MaskedBytes(c, fill) ==
    [i \in 0..(TOTAL_BYTES - 1) |->
        IF i = 0 THEN c.flags_hi
        ELSE IF i = 1 THEN c.flags_lo
        ELSE LET m == IF i = 2 THEN BitOr(c.prefix_mask[i], c.free_hash_mask)
                      ELSE c.prefix_mask[i]
                 v == IF i = 2 THEN BitOr(c.prefix_val[i], c.free_hash_val)
                      ELSE c.prefix_val[i]
             IN BitOr(v, fill * (255 - m))]

\* bytes with bit k (0 = first) inverted
FlipBit(bytes, k) ==
    [bytes EXCEPT ![k \div 8] = BitXor(@, Pow2(7 - (k % 8)))]

FlipBits == (0..MaxFlipBit) \cup ((TOTAL_BITS - 1 - MaxFlipBit)..(TOTAL_BITS - 1))

ReprCandidates(c) ==
    {MaskedBytes(c, 0), MaskedBytes(c, 1)}
    \cup {FlipBit(MaskedBytes(c, 0), k) : k \in FlipBits}

\* A candidate repr_bytes is encoded as process_hit encodes it (line 898)
Encode ==
    /\ mpc = "ctx"
    /\ candidate = None
    /\ \E bytes \in ReprCandidates(cfg) :
          candidate' = <<[bytes |-> bytes, addr |-> urlsafe_b64encode(bytes)]>>
    /\ UNCHANGED <<mainvars, filevars, ctxvars, wpc, wloc, rpc, rloc, stdout,
                   kernelvars>>

NextCfg == MBuild \/ Encode

SpecCfg == InitCfg /\ [][NextCfg]_vars

(***************************************************************************)
(* build_kernel_config alone, on the same range of patterns                *)
(***************************************************************************)
\* Line 1203: main calls build_kernel_config once
NextBuild == MBuild

SpecBuild == InitCfg /\ [][NextBuild]_vars

(***************************************************************************)
(* build_kernel_config on every last digit of an end pattern               *)
(***************************************************************************)
\* The 64 digits of the alphabet
Digits == (65..90) \cup (97..122) \cup (48..57) \cup {45, 95}

\* "", "E", and "AA..A" of 45 and of MaxStartLen digits
EndStarts == {<<>>, <<69>>, Pad(<<>>, 45), Pad(<<>>, MaxStartLen)}

\* "", every end pattern of one digit, "a" and "AA..A" of 46 digits followed by
\* every digit
EndEnds ==
    {<<>>} \cup {<<d>> : d \in Digits} \cup {<<97, d>> : d \in Digits}
    \cup {Append(Pad(<<>>, 46), d) : d \in Digits}

EndClis ==
    {[owner |-> OwnerOk, start |-> s, end |-> e, masterchain |-> FALSE,
      non_bounceable |-> FALSE, testnet |-> FALSE, case_sensitive |-> c,
      only_one |-> FALSE] :
        s \in EndStarts, e \in EndEnds, c \in BOOLEAN}

InitEnds == InitBuildOn({c \in EndClis : Len(c.start) > 0 \/ Len(c.end) > 0},
                        {KernelTemplate})

SpecEnds == InitEnds /\ [][NextBuild]_vars

(***************************************************************************)
(* Kernel rendering alone: render_kernel on a range of templates           *)
(***************************************************************************)
\* kernel.cl as it is filled; with a placeholder that no repl call names; with a
\* tag that occurs twice; with lower-case text between angle brackets; with two
\* tags only
RenderTemplates ==
    {KernelTemplate,
     KernelTemplate \o <<Tag("LOCAL_SIZE"), Text("cl")>>,
     KernelTemplate \o <<Tag("FLAGS_HI"), Text("cl")>>,
     KernelTemplate \o <<Text("<<flags_hi>>")>>,
     <<Text("cl"), Tag("FLAGS_HI"), Tag("FLAGS_LO")>>}

InitRender == InitCfgOn(RenderTemplates)

\* Lines 1203-1204: build_kernel_config and render_kernel
NextRender == MBuild

SpecRender == InitRender /\ [][NextRender]_vars

(***************************************************************************)
(* Properties of the validator                                             *)
(***************************************************************************)
\* The records that have been written through the file object, flushed or not
Written == sink \o fbuf

Records == {Written[k].entry : k \in {j \in 1..Len(Written) : Written[j].kind = "json"}}

\* Bit k (0 = first) of the bit stream that the digits of an address spell
AddressBit(addr, k) == BitOf(base64url_value(addr[(k \div 6) + 1]), 5 - (k % 6))

\* The bytes that an address of 48 digits decodes to
DecodeAddress(addr) ==
    [i \in 0..(TOTAL_BYTES - 1) |->
        SumOver(0..7, [j \in 0..7 |-> AddressBit(addr, 8 * i + j) * Pow2(7 - j)])]

\* One bit step of the CRC16-CCITT shift register, polynomial 0x1021
CcittBit(crc) ==
    IF crc >= 32768 THEN BitXor((2 * crc) % 65536, 4129) ELSE 2 * crc

CcittByte(crc, b) ==
    LET c0 == BitXor(crc, b * 256)
        c1 == CcittBit(c0)
        c2 == CcittBit(c1)
        c3 == CcittBit(c2)
        c4 == CcittBit(c3)
        c5 == CcittBit(c4)
        c6 == CcittBit(c5)
        c7 == CcittBit(c6)
    IN CcittBit(c7)

RECURSIVE CcittFrom(_, _, _, _)
CcittFrom(data, n, i, crc) ==
    IF i >= n THEN crc
    ELSE CHOOSE r \in {CcittFrom(data, n, i + 1, c) : c \in {CcittByte(crc, data[i])}} : TRUE

\* CRC16-CCITT, initial value 0, of data[0..n-1], bit by bit
Ccitt(data, n) == CcittFrom(data, n, 0, 0)

SameDigit(a, b) == IF cli.case_sensitive THEN a = b ELSE lower(a) = lower(b)

HasStart(addr) ==
    /\ cfg.start_digit_base + Len(cli.start) <= Len(addr)
    /\ \A k \in 1..Len(cli.start) : SameDigit(addr[cfg.start_digit_base + k], cli.start[k])

HasEnd(addr) ==
    /\ Len(cli.end) <= Len(addr)
    /\ \A k \in 1..Len(cli.end) : SameDigit(addr[Len(addr) - Len(cli.end) + k], cli.end[k])

SatisfiesMask(repr) ==
    \A i \in 0..(TOTAL_BYTES - 1) : BitAnd(repr[i], cfg.prefix_mask[i]) = cfg.prefix_val[i]

\* C1: a record is in the sink only if its 48-digit address holds the start pattern at
\* digits [start_digit_base, start_digit_base + len(start)), holds the end pattern as
\* its last len(end) digits (exactly when case-sensitive, case-folded otherwise), and
\* every byte i of its repr satisfies (repr[i] & prefix_mask[i]) = prefix_val[i].
C1_AppendedOnlyIfMatch ==
    \A e \in Records :
        /\ Len(e.address) = 48
        /\ HasStart(e.address)
        /\ HasEnd(e.address)
        /\ SatisfiesMask(DecodeAddress(e.address))

\* A case-insensitive search with both patterns has appended a record whose last digit
\* differs from the end pattern in case only
C1_Witness ==
    /\ ~cli.case_sensitive
    /\ Len(cli.start) > 0
    /\ Len(cli.end) > 0
    /\ \E e \in Records : e.address[48] # cli.end[Len(cli.end)]

\* C2: every address in the sink decodes to 36 bytes whose last two bytes are the
\* big-endian CRC16-CCITT (polynomial 0x1021, initial value 0) of bytes 0..33, also
\* when the first hash byte has been rewritten with the free-byte rule.
C2_EmittedCrcValid ==
    \A e \in Records :
        LET repr == DecodeAddress(e.address)
            c == Ccitt(repr, 34)
        IN /\ Len(e.address) = 48
           /\ repr[34] = c \div 256
           /\ repr[35] = c % 256

\* A record is in the sink whose first hash byte was rewritten: the digest of the hit
\* starts with another byte than the address carries
C2_Witness ==
    /\ wpc[1] = "ph_unlock"
    /\ cfg.free_hash_mask # 0
    /\ \E k \in 1..Len(sink) :
           /\ sink[k].kind = "json"
           /\ sink[k].entry = wloc[1].res.entry
           /\ DecodeAddress(sink[k].entry.address)[2] # wloc[1].hit.h[1]

\* The (fixedPrefixLength, special) pair that process_hit writes for variant v (1-based)
RecordedPair(v) ==
    LET fpl_val == cfg.fixed_prefix_lengths[((v - 1) \div Len(cfg.special_variants)) + 1]
    IN <<IF fpl_val = None THEN 0 ELSE fpl_val[1],
         cfg.special_variants[((v - 1) % Len(cfg.special_variants)) + 1]>>

\* C11: for every emitted record, init.fixedPrefixLength and init.special determine
\* the StateInit variant that was hashed: every variant that is recorded with the
\* same pair has the prefix bytes of the variant of the hit, so hashing again from
\* the record reproduces the address.
C11_RecordDeterminesVariant ==
    \A w \in DeviceIds :
        wpc[w] = "ph_unlock"
            => LET e == wloc[w].res.entry
                   hashed == cfg.stateinit_variants[wloc[w].hit.variant_idx + 1]
               IN \A v \in 1..Len(cfg.stateinit_variants) :
                      RecordedPair(v) = <<e.fixedPrefixLength, e.special>>
                          => cfg.stateinit_variants[v] = hashed

(***************************************************************************)
(* Properties of the pattern compiler                                      *)
(***************************************************************************)
Compiled == cfg # NoCfg

\* The digit at bit position bitpos has a case-insensitive ambiguity entry
Ambiguous(bitpos) == \E j \in 1..Len(cfg.ci) : cfg.ci[j].bitpos = bitpos

\* addr begins with start at digit start_digit_base and ends with end, apart from
\* the digits that have an ambiguity entry
SpellsPatterns(addr) ==
    /\ cfg.start_digit_base + Len(cli.start) <= Len(addr)
    /\ Len(cli.end) <= Len(addr)
    /\ \A k \in 1..Len(cli.start) :
          \/ Ambiguous(6 * (cfg.start_digit_base + k - 1))
          \/ SameDigit(addr[cfg.start_digit_base + k], cli.start[k])
    /\ \A k \in 1..Len(cli.end) :
          \/ Ambiguous(TOTAL_BITS - 6 * (Len(cli.end) - k + 1))
          \/ SameDigit(addr[Len(addr) - Len(cli.end) + k], cli.end[k])

\* C3 as stated: every repr that satisfies (repr[i] & prefix_mask[i]) = prefix_val[i]
\* for all i encodes to a string that begins with start at digit start_digit_base
\* and ends with end, apart from the digits that have an ambiguity entry.
C3_MaskImpliesPatterns ==
    (candidate # None /\ SatisfiesMask(candidate[1].bytes))
        => SpellsPatterns(candidate[1].addr)

\* The start pattern lies in bits 0..271, the end pattern in bits 16..287, and the
\* two do not share a digit
PatternsInMaskedBits ==
    /\ cfg.start_digit_base + Len(cli.start) <= HASH_BIT_END \div 6
    /\ Len(cli.end) <= (TOTAL_BITS - HASH_BIT_START) \div 6
    /\ cfg.start_digit_base + Len(cli.start) + Len(cli.end) <= TOTAL_BITS \div 6

\* Bytes 0 and 1 are the flags and the workchain, and byte 2 carries the free-byte value
CarriesFixedBits(bytes) ==
    /\ bytes[0] = cfg.flags_hi
    /\ bytes[1] = cfg.flags_lo
    /\ BitAnd(bytes[2], cfg.free_hash_mask) = BitAnd(cfg.free_hash_val, cfg.free_hash_mask)

\* C3 amended: when the start pattern lies in bits 0..271, the end pattern in bits
\* 16..287 and the two share no digit, every repr whose bytes 0..1 are the flags and
\* the workchain, whose byte 2 agrees with free_hash_val on free_hash_mask, and that
\* satisfies (repr[i] & prefix_mask[i]) = prefix_val[i] for all i encodes to a string
\* that begins with start at digit start_digit_base and ends with end, apart from
\* the digits that have an ambiguity entry.
C3_MaskAndFixedBitsImplyPatterns ==
    (/\ candidate # None
     /\ PatternsInMaskedBits
     /\ CarriesFixedBits(candidate[1].bytes)
     /\ SatisfiesMask(candidate[1].bytes))
        => SpellsPatterns(candidate[1].addr)

\* A case-insensitive configuration with both patterns, free bits and ambiguity
\* entries, and a repr other than the mask values themselves that satisfies the
\* premises
C3_Witness ==
    /\ candidate # None
    /\ PatternsInMaskedBits
    /\ CarriesFixedBits(candidate[1].bytes)
    /\ SatisfiesMask(candidate[1].bytes)
    /\ candidate[1].bytes # MaskedBytes(cfg, 0)
    /\ Len(cli.start) > 0
    /\ Len(cli.end) > 0
    /\ cfg.free_hash_mask # 0
    /\ Len(cfg.ci) > 0

\* The digits a pattern digit stands for
CaseVariants(ch) ==
    IF cli.case_sensitive \/ ~isalpha(ch) THEN {ch} ELSE {lower(ch), upper(ch)}

\* Bit k of the 16 fixed flag and workchain bits
FixedBit(k) == BitOf(IF k < 8 THEN cfg.flags_hi ELSE cfg.flags_lo, 7 - (k % 8))

\* Every digit of the start pattern, placed from digit d, has a variant that agrees
\* with the fixed bits on every bit position it overlaps
Compatible(d) ==
    \A k \in 1..Len(cli.start) :
        \E ch \in CaseVariants(cli.start[k]) :
            \A b \in 0..5 :
                6 * (d + k - 1) + b < 16
                    => BitOf(base64url_value(ch), 5 - b) = FixedBit(6 * (d + k - 1) + b)

\* Offsets 0..3 suffice: from digit 3 on a pattern overlaps no fixed bit
AnyOffsets == 0..((16 + 5) \div 6)

FittingOffsets == {d \in 0..(TOTAL_BITS \div 6) : d + Len(cli.start) <= TOTAL_BITS \div 6}

PaddedToCommonLength ==
    /\ Len(cfg.stateinit_prefix_padded) = Len(cfg.stateinit_variants)
    /\ \E k \in 1..Len(cfg.stateinit_variants) :
          Len(cfg.stateinit_variants[k]) = cfg.stateinit_prefix_max_len
    /\ \A k \in 1..Len(cfg.stateinit_variants) :
          LET v == cfg.stateinit_variants[k]
              p == cfg.stateinit_prefix_padded[k]
          IN /\ Len(v) <= cfg.stateinit_prefix_max_len
             /\ Len(p) = cfg.stateinit_prefix_max_len
             /\ \A j \in 1..Len(p) : p[j] = IF j <= Len(v) THEN v[j] ELSE 0

PopCount(x) == SumOver(0..7, [k \in 0..7 |-> BitOf(x, k)])

\* Bits of address bytes 2..3 constrained by prefix_mask or by free_hash_mask
ConstrainedInBytes2To3 ==
    PopCount(cfg.prefix_mask[2]) + PopCount(cfg.prefix_mask[3])
        + PopCount(cfg.free_hash_mask)

\* --start kQBE --case-sensitive, bounceable mainnet basechain, no end pattern
IsKQBEOnMainnet ==
    /\ cli.start = <<107, 81, 66, 69>>
    /\ cli.end = <<>>
    /\ cli.case_sensitive
    /\ ~cli.testnet /\ ~cli.non_bounceable /\ ~cli.masterchain

\* C14 as stated: for start "kQBE", case-sensitive, bounceable mainnet (flags byte
\* 0x11, workchain byte 0x00), no end pattern, the configuration has
\* start_digit_base = 0, at least 12 constrained bits in bytes 2..3 and 5 variants.
C14_KQBEAtDigitZero ==
    (Compiled /\ IsKQBEOnMainnet)
        => /\ cfg.flags_hi = 17 /\ cfg.flags_lo = 0
           /\ cfg.start_digit_base = 0
           /\ ConstrainedInBytes2To3 >= 12
           /\ Len(cfg.stateinit_variants) = 5

\* C14, amended: for start "kQBE", case-sensitive, bounceable mainnet (flags byte
\* 0x11, workchain byte 0x00), no end pattern, the configuration has
\* start_digit_base = 3 ('k' needs the first bit set, which 0x11 does not have, and
\* digits 1 and 2 overlap the zero workchain bits), 14 constrained bits in bytes
\* 2..3 (6 by free_hash_mask, 8 by prefix_mask) and 5 variants.
C14_KQBEAtDigitThree ==
    (Compiled /\ IsKQBEOnMainnet)
        => /\ cfg.flags_hi = 17 /\ cfg.flags_lo = 0
           /\ cfg.start_digit_base = 3
           /\ PopCount(cfg.free_hash_mask) = 6
           /\ PopCount(cfg.prefix_mask[2]) = 0
           /\ PopCount(cfg.prefix_mask[3]) = 8
           /\ ConstrainedInBytes2To3 >= 12
           /\ Len(cfg.stateinit_variants) = 5

\* The configuration of "kQBE" on mainnet is built
C14_Witness ==
    /\ Compiled
    /\ IsKQBEOnMainnet
    /\ cfg.start_digit_base = 3
    /\ cfg.free_hash_mask = 63

\* --end AAAA, case-insensitive, no start pattern, any address family
IsEndAAAAIgnoringCase ==
    /\ cli.start = <<>>
    /\ cli.end = <<65, 65, 65, 65>>
    /\ ~cli.case_sensitive

\* The prefix mask is set on some bit of each of the bytes 33..35 (bits 264..287)
\* and on no other byte
MaskWithinLastFourDigits ==
    \A b \in 0..(TOTAL_BYTES - 1) : (cfg.prefix_mask[b] # 0) <=> (b \in 33..35)

C20_StartPatternFits ==
    (Compiled /\ Len(cli.start) > 0)
        => /\ cfg.start_digit_base \in 0..(TOTAL_BITS \div 6 - Len(cli.start))
           /\ cfg.start_digit_base + Len(cli.start) <= TOTAL_BITS \div 6

\* The 6-bit values of the upper and the lower form of a letter
FormsOf(ch) == {base64url_value(upper(ch)), base64url_value(lower(ch))}

\* The 6-bit value v, placed at address bit p, agrees with the fixed bits it overlaps
AgreesWithFixedBits(v, p) ==
    \A b \in 0..5 : p + b < 16 => BitOf(v, 5 - b) = FixedBit(p + b)

\* Address bit index of the most significant bit of start digit k and of end digit k
StartPos(k) == 6 * (cfg.start_digit_base + k - 1)

EndPos(k) == TOTAL_BITS - 6 * (Len(cli.end) - k + 1)

\* The ambiguity table as (bit_position, {alt0, alt1}) pairs
RecordedEntries ==
    [j \in 1..Len(cfg.ci) |-> <<cfg.ci[j].bitpos, {cfg.ci[j].alt0, cfg.ci[j].alt1}>>]

\* One pair per start digit that StartKeep selects, then one per letter of end
EntriesFor(StartKeep(_)) ==
    LET EndKeep(k) == isalpha(cli.end[k])
        s == SelectSeq([k \in 1..Len(cli.start) |-> k], StartKeep)
        e == SelectSeq([k \in 1..Len(cli.end) |-> k], EndKeep)
    IN [j \in 1..Len(s) |-> <<StartPos(s[j]), FormsOf(cli.start[s[j]])>>]
       \o [j \in 1..Len(e) |-> <<EndPos(e[j]), FormsOf(cli.end[e[j]])>>]

IsLetterOfStart(k) == isalpha(cli.start[k])

\* A letter of start both of whose forms agree with the fixed bits the digit overlaps
IsOpenLetterOfStart(k) ==
    /\ isalpha(cli.start[k])
    /\ \A v \in FormsOf(cli.start[k]) : AgreesWithFixedBits(v, StartPos(k))

StartValues(k) ==
    {v \in {base64url_value(ch) : ch \in CaseVariants(cli.start[k])} :
        AgreesWithFixedBits(v, StartPos(k))}

EndValues(k) == {base64url_value(ch) : ch \in CaseVariants(cli.end[k])}

\* The values of pattern bit i (0 = first bit of the pattern) across its digit's values
StartBitValues(i) == {BitOf(v, 5 - (i % 6)) : v \in StartValues((i \div 6) + 1)}

EndBitValues(i) == {BitOf(v, 5 - (i % 6)) : v \in EndValues((i \div 6) + 1)}

StartBits == 0..(6 * Len(cli.start) - 1)

EndBits == 0..(6 * Len(cli.end) - 1)

\* Bit a (0 = first bit of byte 0) of prefix_mask and of prefix_val
MaskBit(a) == BitOf(cfg.prefix_mask[a \div 8], 7 - (a % 8))

ValBit(a) == BitOf(cfg.prefix_val[a \div 8], 7 - (a % 8))

\* C22 as stated: every pattern bit of start or end that has one value across its
\* digit's variants and whose address bit index lies in 16..271 is set in
\* prefix_mask, with that value in prefix_val; a pattern bit with two values is
\* never set in prefix_mask.
C22_SingleValuedBitsMasked ==
    Compiled
        => /\ \A i \in StartBits :
                LET a == StartPos(1) + i
                IN /\ (StartBitValues(i) = {0} /\ a \in 16..271)
                          => (MaskBit(a) = 1 /\ ValBit(a) = 0)
                   /\ (StartBitValues(i) = {1} /\ a \in 16..271)
                          => (MaskBit(a) = 1 /\ ValBit(a) = 1)
                   /\ (StartBitValues(i) = {0, 1} /\ a < TOTAL_BITS) => MaskBit(a) = 0
           /\ \A i \in EndBits :
                LET a == EndPos(1) + i
                IN /\ (EndBitValues(i) = {0} /\ a \in 16..271)
                          => (MaskBit(a) = 1 /\ ValBit(a) = 0)
                   /\ (EndBitValues(i) = {1} /\ a \in 16..271)
                          => (MaskBit(a) = 1 /\ ValBit(a) = 1)
                   /\ (EndBitValues(i) = {0, 1} /\ a >= 0) => MaskBit(a) = 0

\* The values that the patterns fix for address bit a through the byte mask: those
\* of a single-valued start bit in 24..271 and of a single-valued end bit in 16..287
MaskedValues(a) ==
    {b \in {0, 1} :
        \/ /\ a \in 24..271
           /\ a - StartPos(1) \in StartBits
           /\ StartBitValues(a - StartPos(1)) = {b}
        \/ /\ a \in 16..287
           /\ a - EndPos(1) \in EndBits
           /\ EndBitValues(a - EndPos(1)) = {b}}

\* C22 amended: address bit a is set in prefix_mask exactly when it is a start bit
\* in 24..271 or an end bit in 16..287 that has one value across its digit's
\* variants, and it is set in prefix_val exactly when such a bit has the value 1.
\* Single-valued start bits in 16..23 go to free_hash_mask instead, and a bit with
\* two values is set in prefix_mask only where the other pattern fixes it.
C22_SingleValuedBitsMaskedPastFreeByte ==
    Compiled
        => \A a \in 0..(TOTAL_BITS - 1) :
              /\ MaskBit(a) = (IF MaskedValues(a) # {} THEN 1 ELSE 0)
              /\ ValBit(a) = (IF 1 \in MaskedValues(a) THEN 1 ELSE 0)

\* A case-insensitive configuration with single-valued start bits in the free
\* byte, single-valued and two-valued start bits after it, and end pattern bits of
\* both kinds
C22_Witness ==
    /\ Compiled
    /\ ~cli.case_sensitive
    /\ \E i \in StartBits : StartPos(1) + i \in 16..23 /\ Cardinality(StartBitValues(i)) = 1
    /\ \E i \in StartBits : StartPos(1) + i \in 24..271 /\ StartBitValues(i) = {1}
    /\ \E i \in StartBits : StartPos(1) + i \in 24..271 /\ StartBitValues(i) = {0, 1}
    /\ \E i \in EndBits : EndBitValues(i) = {1}
    /\ \E i \in EndBits : EndBitValues(i) = {0, 1}
    /\ cfg.free_hash_mask # 0

\* C23: the compiled configuration has prefix_mask[0] = prefix_mask[1] = 0 for every
\* start pattern, end pattern, flag combination and case mode: address bits 0..15
\* are never constrained through the byte mask, also when a pattern overlaps them.
C23_FlagBytesNeverMasked ==
    Compiled => (cfg.prefix_mask[0] = 0 /\ cfg.prefix_mask[1] = 0)

\* A start pattern placed at digit 0 together with an end pattern of 46 digits:
\* both overlap bits 0..15, and both constrain later bytes
C23_Witness ==
    /\ Compiled
    /\ Len(cli.start) > 0
    /\ cfg.start_digit_base = 0
    /\ Len(cli.end) > 0
    /\ EndPos(1) < 16
    /\ cfg.prefix_mask[2] # 0
    /\ cfg.prefix_mask[35] # 0

(***************************************************************************)
(* Properties of the search                                                *)
(***************************************************************************)
Started == 1..Len(threads)

ValidationFailed == \E w \in Started : wloc[w].exc = "RuntimeError"

SinkFailed == \E w \in Started : wloc[w].exc \in {"OSError", "ValueError"}

\* The number of records that have reached addresses.jsonl
NumRecords == Cardinality({k \in 1..Len(sink) : sink[k].kind = "json"})

\* C5: when process_hit has returned false for a hit, the triple and the reason have
\* been printed, the stop flag is set, all workers are joined, and the process exits
\* with a non-zero exit code.
C5_ValidationFailureExitsNonZero ==
    (ValidationFailed /\ exit_code # None)
        => /\ Len(stdout) > 0
           /\ stop_flag
           /\ \A w \in Started : ~IsAlive(w)
           /\ exit_code[1] # 0

\* C6: in only_one mode, with any number of workers, no further record is appended
\* after the first one: the sink holds at most one record per search (stated for
\* the searches in which no write and no flush fails).
C6_OnlyOneAtMostOneRecord ==
    (cli.only_one /\ ~SinkFailed) => NumRecords <= 1

HasBadChar(s) == \E k \in 1..Len(s) : base64url_value(s[k]) = -1

\* The command lines that the claim C7 lists: neither --start nor --end, a character
\* outside the alphabet in owner, start or end, an owner of fewer than 34 bytes
ArgumentError(a) ==
    /\ a.argv
    /\ a.owner # None
    /\ \/ Len(a.start) = 0 /\ Len(a.end) = 0
       \/ HasBadChar(a.owner[1])
       \/ HasBadChar(a.start)
       \/ HasBadChar(a.end)
       \/ (Len(a.owner[1]) * 6) \div 8 < 34

\* C7: every argument error that parse_cli detects ends the process before any
\* search state is created, with exit code 2.
C7_ArgumentErrorExitsWith2 ==
    (ArgumentError(args) /\ exit_code # None)
        => /\ exit_code = <<2>>
           /\ file_state = "absent"
           /\ threads = <<>>

\* main has stopped on a setup error: no device was found, or a build failed
SetupError == cli # NoCli /\ mpc \in {"crashed", "exited"}

\* C8: a setup error aborts main before any device worker has been started and
\* before the result file has been opened or created.
C8_SetupErrorBeforeWorkersAndFile ==
    SetupError => (threads = <<>> /\ file_state = "absent")

\* C9: once a write or a flush of a record has failed in one worker, the search stops:
\* no worker finds the stop flag unset at the top of its loop and goes on to another
\* batch.
C9_SinkFailureStopsSearch ==
    [][SinkFailed => \A v \in DeviceIds : ~(wpc[v] = "loop_top" /\ wpc'[v] = "dispatch")]_vars

CompleteRecords(chunks) ==
    /\ Len(chunks) % 2 = 0
    /\ \A k \in 1..Len(chunks) : chunks[k].kind = IF k % 2 = 1 THEN "json" ELSE "nl"

\* C10: under any interleaving of workers calling process_hit, a worker that writes or
\* flushes a record holds the output lock, and the sink is a sequence of complete
\* newline-terminated records, none interleaved with another.
C10_RecordsUnderLock ==
    /\ \A w \in DeviceIds :
          wpc[w] \in {"ph_write", "ph_flush", "ph_unlock"} => output_lock = Tid(w)
    /\ CompleteRecords(sink)
    /\ CompleteRecords(Written)

\* One worker is flushing the record it has written while the other waits for the
\* lock with a record of its own
C10_Witness ==
    \E w, v \in DeviceIds :
        /\ wpc[w] = "ph_flush"
        /\ wpc[v] = "ph_lock"
        /\ Len(fbuf) > 0

\* A worker between its kernel dispatch and the end of the batch's statistics
InBatch(w) ==
    wpc[w] \in {"slot_loop", "ph_lock", "ph_write", "ph_flush", "ph_unlock",
                "ph_inc_read", "ph_inc_write", "hit_return", "stats_lock",
                "stats_update"}

\* C12: the stop flag is read only at the top of the worker loop. A worker whose
\* loop-top check sees the flag set leaves the loop and dispatches no kernel; a
\* kernel is dispatched only after a loop-top check that saw the flag clear; a
\* worker inside a batch never returns from the loop there, whatever the flag:
\* it takes the next hit of the batch to the validator, and it reaches the end of
\* the batch only with all slots handled or by the only_one break.
C12_StopPolledAtLoopTop ==
    [][\A w \in DeviceIds :
          /\ (wpc[w] = "loop_top" /\ stop_flag) => wpc'[w] \in {"loop_top", "finished"}
          /\ (wpc[w] # "dispatch" /\ wpc'[w] = "dispatch")
                 => (wpc[w] = "loop_top" /\ ~stop_flag)
          /\ wloc'[w].batches # wloc[w].batches => wpc[w] = "dispatch"
          /\ (wpc[w] # "finished" /\ wpc'[w] = "finished") => wpc[w] = "loop_top"
          /\ (InBatch(w) /\ wpc'[w] # wpc[w])
                 => \/ InBatch(w)'
                    \/ wpc[w] = "stats_update" /\ wpc'[w] = "loop_top"
                    \/ wpc'[w] = "dead" /\ wloc'[w].exc # "none"
          /\ (wpc[w] = "slot_loop" /\ wpc'[w] # "slot_loop")
                 => IF wloc[w].slot < Min(wloc[w].count, RES_SLOTS)
                    THEN wpc'[w] \in {"ph_lock", "hit_return"}
                    ELSE wpc'[w] = "stats_lock"
          /\ (wpc[w] = "hit_return" /\ wpc'[w] = "stats_lock")
                 => (cli.only_one /\ n_found > 0)
    ]_vars

\* The driver's interrupt has set the flag while a worker is inside a batch, and
\* the worker has gone on to validate a hit and flush its record
C12_Witness ==
    /\ stop_flag
    /\ mpc = "finally"
    /\ \E w \in DeviceIds :
          /\ wpc[w] = "ph_unlock" /\ wloc[w].res.ok /\ Len(sink) > 0
          /\ ~(cli.only_one /\ n_found > 0)

\* The second run of the validator has taken place, on the input of the first
RanAgain == wloc[2].batches > 0 /\ wpc[1] = "hit_return" /\ wloc[1].res.ok

\* The second run has returned to its caller
ReturnedAgain == RanAgain /\ wpc[2] = "hit_return"

\* The pattern has an end and no start
EndOnly == Len(cli.start) = 0 /\ Len(cli.end) > 0

Placeholders(src) == {i \in 1..Len(src) : src[i].kind = "tag"}

\* The template has a placeholder that no repl call of render_kernel names
HasUnfilledPlaceholder ==
    \E i \in Placeholders(template) :
        \A k \in 1..Len(KernelTags) : template[i].name # KernelTags[k]

\* C17: a source that render_kernel returns holds no placeholder <<[A-Z0-9_]+>>;
\* when the template has a placeholder that the renderer does not fill,
\* render_kernel returns no source (it fails with UnresolvedPlaceholder).
C17_NoPlaceholderLeft ==
    /\ kernel_src # None => Placeholders(kernel_src[1]) = {}
    /\ HasUnfilledPlaceholder => kernel_src = None

\* The device of the worker, and what the table of the heuristics gives for it
ParamDevice == threads[1]

TableThreads ==
    ParamDevice.max_compute_units
        * (IF ParamDevice.vendor \in {"NVIDIA Corporation", "Advanced Micro Devices, Inc.",
                                      "AMD"}
           THEN 2048 ELSE 1024)

TableLocal == IF ParamDevice.vendor = "Intel(R) Corporation" THEN 128 ELSE 256

TableIterations ==
    IF ParamDevice.vendor \in {"NVIDIA Corporation", "Advanced Micro Devices, Inc.", "AMD"}
    THEN 4096 ELSE 2048

\* The worker has published the parameters of its device
ParamsPublished == status.threads # 0

\* C18: for a device with CU >= 1 compute units the parameters are those of the
\* table: NVIDIA/AMD CU*2048 threads, local 256, 4096 iterations; Apple CU*1024,
\* 256, 2048; any other vendor CU*1024, 128, 2048; with n_variants > 0 the
\* iterations are max(512, floor(base / n_variants)); local_size is
\* min(local, max work-group size).
C18_ParamsFollowTable ==
    (ParamsPublished /\ ParamDevice.max_compute_units >= 1)
        => LET n_variants == Len(cfg.stateinit_variants)
           IN /\ n_variants > 0
              /\ status.threads = TableThreads
              /\ status.local = Min(TableLocal, ParamDevice.max_work_group_size)
              /\ status.iterations = Max(512, TableIterations \div n_variants)

\* Parameters are published for a device whose work-group size clamps local_size,
\* with 50 variants, so that the floor of 512 iterations applies
C18_Witness ==
    /\ ParamsPublished
    /\ ParamDevice.max_compute_units = 2
    /\ ParamDevice.max_work_group_size < TableLocal
    /\ Len(cfg.stateinit_variants) = 50
    /\ status.iterations = 512
    /\ status.local = 64

\* Byte x agrees with byte y on every bit of mask m
AgreeOn(x, y, m) == \A k \in 0..7 : BitOf(m, k) = 1 => BitOf(x, k) = BitOf(y, k)

\* C19: for every first hash byte hash0 in 0..255 and the (free_hash_mask,
\* free_hash_val) of the configuration, the rewritten byte repr_bytes[2] equals
\* free_hash_val on every bit of free_hash_mask and hash0 on every other bit; an
\* emitted address decodes to that byte.
C19_FreeByteConsistent ==
    \A w \in DeviceIds :
        wpc[w] \notin {"idle", "unstarted"}
            => LET hash0 == Digest(wloc[w].hit.h)[0]
                   rewritten == ReprBytes(cfg, Digest(wloc[w].hit.h))[2]
               IN /\ rewritten \in 0..255
                  /\ AgreeOn(rewritten, cfg.free_hash_val, cfg.free_hash_mask)
                  /\ AgreeOn(rewritten, hash0, 255 - cfg.free_hash_mask)
                  /\ wloc[w].res.ok
                        => DecodeAddress(wloc[w].res.entry.address)[2] = rewritten

\* A hit is accepted whose first hash byte differs from free_hash_val under a mask
\* that is neither empty nor full, so the rewrite changes some bits and keeps others
C19_Witness ==
    \E w \in DeviceIds :
        /\ wpc[w] = "ph_unlock"
        /\ wloc[w].res.ok
        /\ cfg.free_hash_mask \notin {0, 255}
        /\ ~AgreeOn(Digest(wloc[w].hit.h)[0], cfg.free_hash_val, cfg.free_hash_mask)
        /\ Digest(wloc[w].hit.h)[0] \notin {0, 255}

\* C24: every read and every write of total_iters and of the status snapshot, by a
\* device worker or by the reporter, happens while that thread holds the status
\* lock: a worker about to update the statistics, and the reporter about to copy
\* the snapshot or to read total_iters, is the owner of status_lock.
C24_StatsAccessUnderLock ==
    /\ \A w \in DeviceIds : wpc[w] = "stats_update" => status_lock = Tid(w)
    /\ rpc = "r_snap" => status_lock = ReporterTid
    /\ rpc = "r_total" => status_lock = ReporterTid

\* C25: n_found is an atomic counter: under any interleaving of workers that
\* persist hits through process_hit, once every call has returned (none was ended
\* by a failing write or flush) n_found equals the number of records appended to
\* the sink.
C25_NoIncrementLost ==
    (\A w \in DeviceIds : wpc[w] = "idle" /\ wloc[w].exc = "none")
        => n_found = NumRecords

\* The device workers have ended and the reporter has ended
AllJoined == (\A w \in Started : ~IsAlive(w)) /\ rpc = "finished"

\* C26: on every way out of main's wait loop main first sets the stop flag, then
\* joins every device worker and the reporter, and only then closes the output
\* file: main is past the finally block's first line only with the flag set, it
\* is at or past the close only with every thread ended, the file is closed only
\* by main's last step; and once the file is closed nothing is written to it.
C26_FlagThenJoinsThenClose ==
    /\ [](/\ mpc \in {"join", "close", "done"} => stop_flag
          /\ mpc \in {"close", "done"} => AllJoined
          /\ file_state = "closed" => mpc = "done")
    /\ [][file_state = "closed" => (sink' = sink /\ fbuf' = fbuf)]_vars

\* main has closed the file after a search that wrote a record and that Ctrl-C
\* ended: the worker saw the flag at the top of its loop
C26_Witness ==
    /\ file_state = "closed"
    /\ mpc = "done"
    /\ NumRecords > 0
    /\ wpc[1] = "finished"
    /\ ~(cli.only_one /\ n_found > 0)

\* Every device worker and the reporter have left their loops and main has
\* joined them, closed the file and returned
Terminated == mpc = "done" /\ AllJoined

\* C27: once the stop flag is set, by a validation failure, an only_one hit or
\* Ctrl-C, and every GPU call returns, every device worker and the reporter leave
\* their loops in the end and main finishes joining them and terminates.
C27_StopLeadsToTermination == stop_flag ~> Terminated

\* The search has terminated after a validation failure set the flag and ended
\* the worker
C27_Witness ==
    /\ Terminated
    /\ stop_flag
    /\ wpc[1] = "dead"
    /\ wloc[1].exc = "RuntimeError"
    /\ Len(stdout) > 0

\* The positions of a worker inside the loop over the result slots
SlotPcs ==
    {"slot_loop", "ph_lock", "ph_write", "ph_flush", "ph_unlock", "ph_inc_read",
     "ph_inc_write", "hit_return"}

\* The number of slots a batch has to validate
SlotLimit(w) == Min(wloc[w].count, RES_SLOTS)

\* The worker leaves the slot loop at a hit that failed validation, or at the
\* only_one stop
StopsAtHit(w) ==
    /\ wpc[w] = "hit_return"
    /\ ~wloc[w].res.ok \/ (cli.only_one /\ n_found > 0)

\* The worker's step is a write or a flush that raises
SinkRaises(w) ==
    /\ wpc[w] \in {"ph_write", "ph_flush"}
    /\ wpc'[w] = "dead"
    /\ wloc'[w].exc \in {"OSError", "ValueError"}

\* The steps of a batch: the count read after the dispatch is the number of hits
\* of this batch (the device counter was zero before the kernel ran) and the
\* slot index starts at 0; a slot is validated only if its index is below
\* min(found_count, 1024); the index goes up by one after each validated hit; and
\* the loop is left after slot min(found_count, 1024) - 1, or early
BatchSteps(w, early) ==
    /\ (wpc[w] = "dispatch" /\ wpc'[w] # "dispatch")
          => (wloc'[w].count = wloc'[w].kernel_hits /\ wloc'[w].slot = 0)
    /\ (wpc[w] = "slot_loop" /\ wpc'[w] \in {"ph_lock", "hit_return"})
          => wloc[w].slot < SlotLimit(w)
    /\ (wpc[w] \in SlotPcs /\ wpc'[w] \in SlotPcs)
          => /\ wloc'[w].count = wloc[w].count
             /\ wloc'[w].slot = IF wpc[w] = "hit_return" THEN wloc[w].slot + 1
                                ELSE wloc[w].slot
    /\ (wpc[w] \in SlotPcs /\ wpc'[w] \notin SlotPcs)
          => \/ wpc[w] = "slot_loop" /\ wloc[w].slot = SlotLimit(w)
             \/ early

\* C28 as stated: in every batch the worker resets the device found_count before
\* the dispatch and then validates exactly the first min(found_count, 1024) slots
\* in slot order, stopping early only at the first hit that fails validation or
\* at the only_one stop; hits beyond slot 1024 are never validated or persisted.
C28_SlotsValidatedInOrder ==
    [][\A w \in DeviceIds : BatchSteps(w, StopsAtHit(w))]_vars

\* C28 amended: the same, with a third early stop: a hit whose write or flush to
\* the sink raises ends the worker.
C28_SlotsValidatedInOrderOrSinkRaises ==
    [][\A w \in DeviceIds : BatchSteps(w, StopsAtHit(w) \/ SinkRaises(w))]_vars

\* The kernel reported more hits than there are slots and the worker has
\* validated and persisted slots 0..1023
C28_Witness ==
    /\ wpc[1] = "slot_loop"
    /\ wloc[1].count > RES_SLOTS
    /\ wloc[1].slot = RES_SLOTS
    /\ Len(sink) = 2 * RES_SLOTS

\* The positions of a caller inside process_hit, up to its return
CallPcs == SlotPcs \ {"slot_loop"}

\* C29: a call of process_hit that returns false (variant_idx out of range, prefix
\* mask mismatch, start mismatch or end mismatch) writes nothing to the sink and
\* leaves n_found unchanged: no step of a call whose result is not ok changes
\* the sink, the file's buffer or n_found.
C29_FalseReturnWritesNothing ==
    [][\A w \in DeviceIds :
          (wpc'[w] \in CallPcs /\ ~wloc'[w].res.ok)
              => (sink' = sink /\ fbuf' = fbuf /\ n_found' = n_found)]_vars

\* A call has returned false for a start mismatch, after the variant index and
\* the mask had passed
C29_Witness ==
    /\ wpc[1] = "hit_return"
    /\ ~wloc[1].res.ok
    /\ wloc[1].res.reason = "start mismatch"
    /\ Len(sink) = 0
    /\ n_found = 0

\* C30: has_crc = 1 exactly when the end pattern is non-empty, in both case modes:
\* the last end digit has a single-valued bit in bits 282..287, which is set in
\* prefix_mask; a start pattern alone never sets has_crc; and prefix_pos_nocrc is
\* prefix_pos without the byte indices 34 and 35.
C30_CrcFlagIffEnd ==
    Compiled
        => /\ cfg.has_crc = (IF Len(cli.end) > 0 THEN 1 ELSE 0)
           /\ Len(cli.end) > 0 => \E a \in 282..287 : MaskBit(a) = 1
           /\ Len(cli.end) = 0 => (cfg.prefix_mask[34] = 0 /\ cfg.prefix_mask[35] = 0)
           /\ cfg.prefix_pos_nocrc = cfg.prefix_pos \ {34, 35}

\* A case-insensitive end pattern that ends with a letter, together with a start
\* pattern that runs into the checksum bytes
C30_Witness ==
    /\ Compiled
    /\ ~cli.case_sensitive
    /\ Len(cli.end) > 0
    /\ isalpha(cli.end[Len(cli.end)])
    /\ StartPos(1) + 6 * Len(cli.start) > HASH_BIT_END
    /\ cfg.has_crc = 1
    /\ cfg.prefix_pos_nocrc # cfg.prefix_pos
    /\ cfg.prefix_pos_nocrc # {}

=============================================================================
